---- MODULE Spec2Model ----
(***************************************************************************)
(* prazod: conversion between a relational-model schema (Prisma AST) and   *)
(* a runtime-validation schema (Zod AST).                                  *)
(*                                                                         *)
(* Strings are sequences of one-character strings, so that the character   *)
(* level behaviour of the tokenizer, the pluralizer and the prefix/suffix  *)
(* tests of the source is computed and not assumed.  The absent string     *)
(* (null / undefined / "") is the empty sequence: all three are falsy in   *)
(* the source's tests.                                                     *)
(***************************************************************************)
EXTENDS Integers, Sequences, FiniteSets, TLC

(***************************************************************************)
(* Characters and elementary string operations (ECMAScript String).        *)
(***************************************************************************)
LowerChars ==
  << "a", "b", "c", "d", "e", "f", "g", "h", "i", "j", "k", "l", "m",
     "n", "o", "p", "q", "r", "s", "t", "u", "v", "w", "x", "y", "z" >>

UpperChars ==
  << "A", "B", "C", "D", "E", "F", "G", "H", "I", "J", "K", "L", "M",
     "N", "O", "P", "Q", "R", "S", "T", "U", "V", "W", "X", "Y", "Z" >>

LowerSet == { LowerChars[i] : i \in DOMAIN LowerChars }

UpperSet == { UpperChars[i] : i \in DOMAIN UpperChars }

DigitSet == { "0", "1", "2", "3", "4", "5", "6", "7", "8", "9" }

VowelSet == { "a", "e", "i", "o", "u" }

LowerOf == [ c \in UpperSet |-> LowerChars[CHOOSE i \in DOMAIN UpperChars : UpperChars[i] = c] ]

UpperOf == [ c \in LowerSet |-> UpperChars[CHOOSE i \in DOMAIN LowerChars : LowerChars[i] = c] ]

toLowerCase(s) == [ i \in 1..Len(s) |-> IF s[i] \in UpperSet THEN LowerOf[s[i]] ELSE s[i] ]

toUpperCase(s) == [ i \in 1..Len(s) |-> IF s[i] \in LowerSet THEN UpperOf[s[i]] ELSE s[i] ]

\* s.slice(n) for 0 <= n
sliceFrom(s, n) == IF n >= Len(s) THEN << >> ELSE SubSeq(s, n + 1, Len(s))

\* s.slice(0, -n) for n > 0
dropLast(s, n) == IF n >= Len(s) THEN << >> ELSE SubSeq(s, 1, Len(s) - n)

\* s.charAt(0).toUpperCase() + s.slice(1)
capitalize(s) == IF s = << >> THEN << >> ELSE toUpperCase(<< s[1] >>) \o sliceFrom(s, 1)

\* s.charAt(0).toLowerCase() + s.slice(1)
uncapitalize(s) == IF s = << >> THEN << >> ELSE toLowerCase(<< s[1] >>) \o sliceFrom(s, 1)

startsWith(s, p) == Len(p) <= Len(s) /\ SubSeq(s, 1, Len(p)) = p

endsWith(s, p) == Len(p) <= Len(s) /\ SubSeq(s, Len(s) - Len(p) + 1, Len(s)) = p

includes(s, p) == \E i \in 0..(Len(s) - Len(p)) : SubSeq(s, i + 1, i + Len(p)) = p

\* Array.prototype.includes / indexOf on a sequence
SeqContains(seq, x) == \E i \in DOMAIN seq : seq[i] = x

ToSet(seq) == { seq[i] : i \in DOMAIN seq }

RECURSIVE Concat(_)
\* Array.prototype.join("")
Concat(seqs) == IF seqs = << >> THEN << >> ELSE Head(seqs) \o Concat(Tail(seqs))

RECURSIVE FilterFrom(_, _, _)
FilterFrom(s, keep, i) ==
  IF i > Len(s) THEN << >>
  ELSE (IF keep[i] THEN << s[i] >> ELSE << >>) \o FilterFrom(s, keep, i + 1)

\* Array.prototype.filter, given for every index whether the element is kept
Filter(s, keep) == FilterFrom(s, keep, 1)

\* Array.prototype.findIndex + 1, given for every index whether the element satisfies the test
FirstIndex(hits) ==
  IF \E i \in DOMAIN hits : hits[i]
  THEN CHOOSE i \in DOMAIN hits : hits[i] /\ \A j \in 1..(i - 1) : ~hits[j]
  ELSE 0

\* Array.prototype.find, given for every index whether the element satisfies the test
PickFirst(s, hits, none) == IF FirstIndex(hits) = 0 THEN none ELSE s[FirstIndex(hits)]

(***************************************************************************)
(* Exact rational arithmetic for the matcher's scores (pairs <<n, d>>,     *)
(* d > 0, in lowest terms).                                                *)
(***************************************************************************)
RECURSIVE Gcd(_, _)
Gcd(a, b) == IF b = 0 THEN a ELSE Gcd(b, a % b)

Rat(n, d) == LET g == Gcd(IF n < 0 THEN -n ELSE n, d) IN IF g = 0 THEN << 0, 1 >> ELSE << n \div g, d \div g >>

RAdd(x, y) == Rat(x[1] * y[2] + y[1] * x[2], x[2] * y[2])

RMul(x, y) == Rat(x[1] * y[1], x[2] * y[2])

RLt(x, y) == x[1] * y[2] < y[1] * x[2]

RGe(x, y) == ~RLt(x, y)

RMin(x, y) == IF RLt(y, x) THEN Rat(y[1], y[2]) ELSE Rat(x[1], x[2])

(***************************************************************************)
(* PureFSTRelationMatcher (relation-matcher).  A matcher value is a record *)
(*   modelNames    : the entity names, in schema order                     *)
(*   fieldToModel  : learned map  field name -> entity name                *)
(*   relationGraph : learned map  relation name -> participants, in        *)
(*                   insertion order (a JavaScript Set iterates so)        *)
(*   fuse          : the answer of the external fuzzy index (Fuse.js) to   *)
(*                   a search, << >> when it finds nothing                 *)
(***************************************************************************)
NoName == << >>

RECURSIVE TokenizeFrom(_, _, _)
\* s.split(/[^a-z0-9]+|(?<=[a-z])(?=[A-Z])/): the maximal runs of [a-z0-9].
\* The zero-width alternative never splits: where it could match, the first
\* alternative matches the upper-case letter itself.
TokenizeFrom(s, i, cur) ==
  IF i > Len(s) THEN (IF cur = << >> THEN << >> ELSE << cur >>)
  ELSE IF s[i] \in LowerSet \cup DigitSet THEN TokenizeFrom(s, i + 1, Append(cur, s[i]))
  ELSE (IF cur = << >> THEN << >> ELSE << cur >>) \o TokenizeFrom(s, i + 1, << >>)

\* .filter(t => t.length > 0 && !/^\d+$/.test(t))
tokenize(s) == SelectSeq(TokenizeFrom(s, 1, << >>), LAMBDA t : \E i \in DOMAIN t : t[i] \notin DigitSet)

modelTokens(m) == tokenize(m)

modelTokenSet(m) == ToSet(tokenize(m))

\* Map.get on lowerToOriginal: a later entity overwrites an earlier one
lowerToOriginal(modelNames, key) ==
  IF \E i \in DOMAIN modelNames : toLowerCase(modelNames[i]) = key
  THEN modelNames[CHOOSE i \in DOMAIN modelNames :
         /\ toLowerCase(modelNames[i]) = key
         /\ \A j \in (i + 1)..Len(modelNames) : toLowerCase(modelNames[j]) # key]
  ELSE NoName

\* PureFSTRelationMatcher.plural
plural(word) ==
  IF word # << >> /\ ( \/ word[Len(word)] \in { "s", "x", "z" }
                       \/ endsWith(word, << "c", "h" >>)
                       \/ endsWith(word, << "s", "h" >>) )
    THEN word \o << "e", "s" >>
  ELSE IF endsWith(word, << "y" >>) /\ ~(Len(word) >= 2 /\ word[Len(word) - 1] \in VowelSet)
    THEN dropLast(word, 1) \o << "i", "e", "s" >>
  ELSE word \o << "s" >>

\* learnStatistics: number of times token b directly follows token a in an entity name
TransCount(modelNames, a, b) ==
  LET pairsOf(m) == LET t == tokenize(m) IN Cardinality({ i \in 1..(Len(t) - 1) : t[i] = a /\ t[i + 1] = b })
      RECURSIVE Sum(_)
      Sum(k) == IF k = 0 THEN 0 ELSE pairsOf(modelNames[k]) + Sum(k - 1)
  IN Sum(Len(modelNames))

TransTotal(modelNames, a) ==
  LET outOf(m) == LET t == tokenize(m) IN Cardinality({ i \in 1..(Len(t) - 1) : t[i] = a })
      RECURSIVE Sum(_)
      Sum(k) == IF k = 0 THEN 0 ELSE outOf(modelNames[k]) + Sum(k - 1)
  IN Sum(Len(modelNames))

\* transitions.get(a)?.get(b) ?? 0, after normalisation to probabilities
transitions(modelNames, a, b) ==
  IF TransTotal(modelNames, a) = 0 THEN << 0, 1 >>
  ELSE Rat(TransCount(modelNames, a, b), TransTotal(modelNames, a))

RECURSIVE CommonPrefixLen(_, _, _)
CommonPrefixLen(a, b, k) ==
  IF k < Len(a) /\ k < Len(b) /\ a[k + 1] = b[k + 1] THEN CommonPrefixLen(a, b, k + 1) ELSE k

RECURSIVE CommonSuffixLen(_, _, _)
CommonSuffixLen(a, b, k) ==
  IF k < Len(a) /\ k < Len(b) /\ a[Len(a) - k] = b[Len(b) - k] THEN CommonSuffixLen(a, b, k + 1) ELSE k

\* similar: (pre + suf) >= min * 1.2
similar(a, b) ==
  \/ a = b
  \/ LET min == IF Len(a) < Len(b) THEN Len(a) ELSE Len(b)
     IN 10 * (CommonPrefixLen(a, b, 0) + CommonSuffixLen(a, b, 0)) >= 12 * min

\* the score fastFstMatch gives one entity
FstScore(modelNames, fieldTokens, model) ==
  LET mt == tokenize(model)
      max == IF Len(fieldTokens) > Len(mt) THEN Len(fieldTokens) ELSE Len(mt)
      both == IF Len(fieldTokens) < Len(mt) THEN Len(fieldTokens) ELSE Len(mt)
      At(i) == RAdd(IF fieldTokens[i] = mt[i] THEN << 2, 1 >>
                    ELSE IF similar(fieldTokens[i], mt[i]) THEN << 13, 10 >>
                    ELSE << 0, 1 >>,
                    IF i + 1 <= Len(fieldTokens) /\ i + 1 <= Len(mt)
                    THEN RMul(transitions(modelNames, fieldTokens[i], mt[i + 1]), << 7, 10 >>)
                    ELSE << 0, 1 >>)
      RECURSIVE Sum(_)
      Sum(i) == IF i = 0 THEN << 0, 1 >> ELSE RAdd(At(i), Sum(i - 1))
      diff == IF Len(fieldTokens) > Len(mt) THEN Len(fieldTokens) - Len(mt) ELSE Len(mt) - Len(fieldTokens)
  IN IF max = 0 THEN << 0, 1 >>  \* 0/0 is NaN, which is greater than nothing
     ELSE RMul(RMul(Sum(both), << 1, max >>), RAdd(<< 1, 1 >>, Rat(-diff, 2 * max)))

\* if (score > best.score) best = { model, score }
Better(best, model, score) == IF RLt(best.score, score) THEN [model |-> model, score |-> score] ELSE best

RECURSIVE FstBest(_, _, _, _)
\* the loop of fastFstMatch: k entities seen; best = [model, score]
FstBest(modelNames, fieldTokens, k, best) ==
  IF k > Len(modelNames) THEN best
  ELSE FstBest(modelNames, fieldTokens, k + 1,
               Better(best, modelNames[k], FstScore(modelNames, fieldTokens, modelNames[k])))

NoMatch == [modelName |-> NoName, confidence |-> << 0, 1 >>, strategy |-> "none"]

MatchResult(m, c, s) == [modelName |-> m, confidence |-> c, strategy |-> s]

\* a result for a name that was found, null (NoMatch) otherwise
Found(name, c, s) == IF name # NoName THEN MatchResult(name, c, s) ELSE NoMatch

\* An entity that is not among modelNames has no token entry: the source
\* dereferences undefined and throws a TypeError.
ThrowResult == [modelName |-> NoName, confidence |-> << 0, 1 >>, strategy |-> "TypeError"]

\* the tier returned a result, or threw
Decisive(r) == r.modelName # NoName \/ r.strategy = "TypeError"

\* the result of the first tier, in the source's order, that returns or throws
FirstDecisive(rs, none) == PickFirst(rs, [ i \in DOMAIN rs |-> Decisive(rs[i]) ], none)

\* return best.score >= 0.5 ? { modelName, confidence: min(0.94, score), strategy } : null
FstResult(best) ==
  IF RGe(best.score, << 1, 2 >>)
  THEN MatchResult(best.model, RMin(<< 94, 100 >>, best.score), "fstPattern")
  ELSE NoMatch

fastFstMatch(modelNames, fieldTokens) ==
  FstResult(FstBest(modelNames, fieldTokens, 1, [model |-> NoName, score |-> << 49, 100 >>]))

selfConfidence(modelNames, field, model) ==
  LET joined == Concat(model)
      set == IF SeqContains(modelNames, joined) THEN modelTokenSet(joined) ELSE ToSet(model)
      common == Cardinality({ i \in DOMAIN field : field[i] \in set })
      denom == IF Len(field) + Len(model) - common = 0 THEN 1 ELSE Len(field) + Len(model) - common
      len == IF Len(field) < Len(model) THEN Len(field) ELSE Len(model)
      pos == Cardinality({ i \in 1..len : field[i] = model[i] })
  IN RMin(<< 94, 100 >>,
          RAdd(RMul(Rat(common, denom), << 65, 100 >>),
               RMul(IF len = 0 THEN << 0, 1 >> ELSE Rat(pos, len), << 35, 100 >>)))

\* fieldLow.replace(/(id|ids|ref|refs|key|keys|fk)$/i, "").trim(), no blanks in names
MorphClean(fieldLow) ==
  LET sufs == << << "i", "d" >>, << "i", "d", "s" >>, << "r", "e", "f" >>, << "r", "e", "f", "s" >>,
                 << "k", "e", "y" >>, << "k", "e", "y", "s" >>, << "f", "k" >> >>
      hits == { i \in DOMAIN sufs : endsWith(fieldLow, sufs[i]) }
  IN IF hits = { } THEN fieldLow
     \* the leftmost match is the longest suffix
     ELSE dropLast(fieldLow, Len(sufs[CHOOSE i \in hits : \A j \in hits : Len(sufs[j]) <= Len(sufs[i])]))

\* lowerToOriginal.get(clean.charAt(0).toUpperCase() + clean.slice(1)), if (clean)
MorphTarget(modelNames, clean) ==
  IF clean = << >> THEN NoName ELSE lowerToOriginal(modelNames, capitalize(clean))

\* 3. Self-relation: common tokens over the union, above 0.33
SelfMatch(modelNames, fieldTokens, curTokens, currentModel, common) ==
  IF common > 0 /\ 100 * common > 33 * (Len(fieldTokens) + Len(curTokens) - common)
  THEN MatchResult(currentModel, selfConfidence(modelNames, fieldTokens, curTokens), "learnedSelfRelation")
  ELSE NoMatch

\* the tiers of match, in order, for the lower-cased field name and its tokens
MatchTiers(M, fieldName, currentModel, fieldLow, fieldTokens) ==
  << IF fieldName \in DOMAIN M.fieldToModel
       THEN MatchResult(M.fieldToModel[fieldName], << 95, 100 >>, "learnedPattern") ELSE NoMatch,
     Found(lowerToOriginal(M.modelNames, fieldLow), << 1, 1 >>, "exact"),
     IF ~SeqContains(M.modelNames, currentModel) /\ fieldTokens # << >> THEN ThrowResult ELSE NoMatch,
     SelfMatch(M.modelNames, fieldTokens, modelTokens(currentModel), currentModel,
               Cardinality({ i \in DOMAIN fieldTokens : fieldTokens[i] \in modelTokenSet(currentModel) })),
     fastFstMatch(M.modelNames, fieldTokens),
     Found(MorphTarget(M.modelNames, MorphClean(fieldLow)), << 86, 100 >>, "morphological"),
     Found(M.fuse, << 6, 10 >>, "fuzzy") >>

match(M, fieldName, currentModel) ==
  FirstDecisive(MatchTiers(M, fieldName, currentModel, toLowerCase(fieldName), tokenize(toLowerCase(fieldName))),
                NoMatch)

\* suggestBackRelation; NoName stands for null
suggestBackRelation(forwardField, forwardModel) ==
  LET fieldTokens == tokenize(toLowerCase(forwardField))
      mTokens == modelTokens(forwardModel)
      descriptor == SelectSeq(fieldTokens, LAMBDA t : ~SeqContains(mTokens, t))
      pl == plural(Concat(mTokens))
  IN IF fieldTokens # << >> /\ \E i \in DOMAIN mTokens :
          fieldTokens[1] = mTokens[i] \/ fieldTokens[1] = mTokens[i] \o << "s" >>
     THEN NoName
     ELSE pl \o Concat([ i \in DOMAIN descriptor |-> capitalize(descriptor[i]) ])

\* suggestBackRelationName builds a fresh matcher over modelNames
suggestBackRelationName(forwardField, forwardModel, modelNames) ==
  suggestBackRelation(forwardField, forwardModel)

(***************************************************************************)
(* Validation AST (zod-ast) and relational AST (prisma-ast).               *)
(*                                                                         *)
(* A field's documentation is kept as the fragments the source's regular   *)
(* expressions extract from the free text:                                 *)
(*   rel        /@relation\(([^)]+)\)/ matches                             *)
(*   nameForm   where the relation name stands: "positional"               *)
(*              (@relation("N", ...)), "nameFirst" (@relation(name: "N",   *)
(*              ...)), "nameLater" (@relation(fields: ..., name: "N")),    *)
(*              or "none"                                                  *)
(*   name, fields, references, onDelete, onUpdate : the captured groups    *)
(*   id, unique : the text includes "@id", "@unique"                       *)
(*   map, native : @map("..."), the @db.X hints                            *)
(*   text       the remaining free text                                    *)
(***************************************************************************)
NoDoc ==
  [ rel |-> FALSE, nameForm |-> "none", name |-> NoName, fields |-> << >>, references |-> << >>,
    onDelete |-> "", onUpdate |-> "", id |-> FALSE, unique |-> FALSE, map |-> NoName,
    native |-> << >>, text |-> "" ]

\* field.documentation is a non-empty string
DocPresent(d) == d # NoDoc

ZString(v) == [tag |-> "ZodString", validations |-> v]

ZNumber(v) == [tag |-> "ZodNumber", validations |-> v]

ZLeaf(t) == [tag |-> t]

ZObject(n) == [tag |-> "ZodObject", name |-> n]

ZEnum(n) == [tag |-> "ZodEnum", name |-> n]

ZOptional(t) == [tag |-> "ZodOptional", inner |-> t]

ZNullable(t) == [tag |-> "ZodNullable", inner |-> t]

ZArray(t) == [tag |-> "ZodArray", element |-> t]

\* v = [kind |-> typeof the value, text |-> its printed form]
ZDefault(t, v) == [tag |-> "ZodDefault", inner |-> t, defaultValue |-> v]

ZodField(n, t, d) == [name |-> n, type |-> t, documentation |-> d]

ZodObjectDef(n, fs) == [name |-> n, fields |-> fs]

ZodEnumDef(n, vs) == [name |-> n, values |-> vs]

nNested == << "N", "e", "s", "t", "e", "d" >>

nUnknownEnum == << "U", "n", "k", "n", "o", "w", "n", "E", "n", "u", "m" >>

nId == << "i", "d" >>

\* PrismaFieldType: a scalar is its own tag, with no name
ScalarType(t) == [tag |-> t, name |-> NoName]

ModelType(n) == [tag |-> "Model", name |-> n]

EnumType(n) == [tag |-> "Enum", name |-> n]

IsModelType(t) == t.tag = "Model"

Attr(t) == [tag |-> t]

DefaultAttr(v) == [tag |-> "Default", value |-> v]

RelationAttr(r) == [tag |-> "Relation", relation |-> r]

Relation(n, fs, rs) == [name |-> n, fields |-> fs, references |-> rs, onDelete |-> "", onUpdate |-> ""]

HasAttr(f, t) == \E i \in DOMAIN f.attributes : f.attributes[i].tag = t

\* attributes.find(a => a._tag === "Relation"); only called when one exists
RelationOf(f) ==
  PickFirst(f.attributes, [ i \in DOMAIN f.attributes |-> f.attributes[i].tag = "Relation" ],
            RelationAttr(Relation(NoName, << >>, << >>))).relation

(***************************************************************************)
(* learnGlobalPatterns                                                     *)
(***************************************************************************)
\* PureFSTRelationMatcher.extractModelFromRelationName: first entity, in
\* schema order, that is a prefix of the relation name
matcherExtractModel(modelNames, rel) ==
  PickFirst(modelNames, [ i \in DOMAIN modelNames |-> startsWith(rel, modelNames[i]) ], NoName)

\* id.replace(/(Id|ID|_id|_ID)$/i, ""): case-insensitive, leftmost match
StripIdSuffix(id) ==
  LET low == toLowerCase(id)
  IN IF endsWith(low, << "_", "i", "d" >>) THEN dropLast(id, 3)
     ELSE IF endsWith(low, << "i", "d" >>) THEN dropLast(id, 2)
     ELSE id

\* the relation name /@relation\((?:"([^"]+)"|name:\s*"([^"]+)")/ captures
LearnedRelationName(d) ==
  IF d.rel /\ d.nameForm \in { "positional", "nameFirst" } THEN d.name ELSE NoName

RECURSIVE LearnIds(_, _, _)
\* for (const id of ids): fieldToModel.set(id, target); set(base, target)
LearnIds(f2m, ids, target) ==
  IF ids = << >> THEN f2m
  ELSE LET id == Head(ids)
           base == StripIdSuffix(id)
           one == (id :> target) @@ f2m
           two == IF base # id THEN (base :> target) @@ one ELSE one
       IN LearnIds(two, Tail(ids), target)

\* the body of the inner loop, for one field of entity objName
LearnField(M, objName, f) ==
  LET d == f.documentation
      relationName == LearnedRelationName(d)
      parts == IF relationName \in DOMAIN M.relationGraph THEN M.relationGraph[relationName] ELSE << >>
      graph == (relationName :> (IF SeqContains(parts, objName) THEN parts ELSE Append(parts, objName)))
                 @@ M.relationGraph
      target == matcherExtractModel(M.modelNames, relationName)
      f2m == IF target = NoName THEN M.fieldToModel
             ELSE LearnIds((f.name :> target) @@ M.fieldToModel, d.fields, target)
  IN IF relationName = NoName THEN M
     ELSE [M EXCEPT !.relationGraph = graph, !.fieldToModel = f2m]

RECURSIVE LearnFields(_, _, _)
LearnFields(M, objName, fields) ==
  IF fields = << >> THEN M
  ELSE LearnFields(LearnField(M, objName, Head(fields)), objName, Tail(fields))

RECURSIVE LearnObjects(_, _)
LearnObjects(M, objects) ==
  IF objects = << >> THEN M
  ELSE LearnObjects(LearnFields(M, Head(objects).name, Head(objects).fields), Tail(objects))

\* new PureFSTRelationMatcher(modelNames)
NewMatcher(modelNames, fuseAnswer) ==
  [modelNames |-> modelNames, fieldToModel |-> << >>, relationGraph |-> << >>, fuse |-> fuseAnswer]

learnGlobalPatterns(M, objects) == LearnObjects(M, objects)

getTargetModelFromGraph(M, relationName, currentModelName) ==
  LET set == IF relationName \in DOMAIN M.relationGraph THEN M.relationGraph[relationName] ELSE << >>
  IN IF set = << >> THEN NoName
     ELSE IF Len(set) = 1 THEN set[1]
     ELSE PickFirst(set, [ i \in DOMAIN set |-> set[i] # currentModelName ], NoName)

(***************************************************************************)
(* Target resolution (transformers): inferRelationModelType and helpers.   *)
(***************************************************************************)
RECURSIVE SplitWordsFrom(_, _, _)
\* relationName.split(/(?=[A-Z])/): a new word starts before every upper-case letter
SplitWordsFrom(s, i, cur) ==
  IF i > Len(s) THEN << cur >>
  ELSE IF s[i] \in UpperSet /\ i > 1 THEN << cur >> \o SplitWordsFrom(s, i + 1, << s[i] >>)
  ELSE SplitWordsFrom(s, i + 1, Append(cur, s[i]))

SplitWords(s) == SplitWordsFrom(s, 1, << >>)

RECURSIVE InsertByLength(_, _)
InsertByLength(sorted, x) ==
  IF sorted = << >> THEN << x >>
  ELSE IF Len(Head(sorted)) >= Len(x) THEN << Head(sorted) >> \o InsertByLength(Tail(sorted), x)
  ELSE << x >> \o sorted

RECURSIVE SortByLengthDesc(_, _)
\* [...modelNames].sort((a, b) => b.length - a.length), a stable sort
SortByLengthDesc(names, k) ==
  IF k = 0 THEN << >> ELSE InsertByLength(SortByLengthDesc(names, k - 1), names[k])

sortedModels(modelNames) == SortByLengthDesc(modelNames, Len(modelNames))

\* the findModel helper of extractModelFromRelationName
findModel(modelNames, word) ==
  IF SeqContains(modelNames, word) THEN word
  ELSE IF endsWith(word, << "s" >>) /\ SeqContains(modelNames, dropLast(word, 1)) THEN dropLast(word, 1)
  ELSE IF endsWith(word, << "i", "e", "s" >>) /\ SeqContains(modelNames, dropLast(word, 3) \o << "y" >>)
    THEN dropLast(word, 3) \o << "y" >>
  ELSE NoName

\* the first name of a list that is a name, NoName (null) when none is
FirstName(names) == PickFirst(names, [ i \in DOMAIN names |-> names[i] # NoName ], NoName)

\* the first entity, longest first, that the string starts with
PrefixOf(sorted, str) == PickFirst(sorted, [ i \in DOMAIN sorted |-> startsWith(str, sorted[i]) ], NoName)

\* the first word names an entity: the entity, or another one named after it
FirstWordDecide(modelNames, words, currentModelName, firstModel) ==
  IF currentModelName # NoName /\ firstModel = currentModelName /\ Len(words) > 1
  THEN FirstName(<< IF words[2] # << >> THEN findModel(modelNames, words[2]) ELSE NoName,
                    findModel(modelNames, Concat(Tail(words))),
                    firstModel >>)
  ELSE firstModel

\* Try first word first
FirstWordStep(modelNames, words, currentModelName) ==
  IF words[1] # << >> /\ findModel(modelNames, words[1]) # NoName
  THEN FirstWordDecide(modelNames, words, currentModelName, findModel(modelNames, words[1]))
  ELSE NoName

\* the body of the "longest match first" loop for the entity that is a prefix
PrefixDecide(modelNames, sorted, currentModelName, hit, suffix) ==
  IF currentModelName # NoName /\ hit = currentModelName /\ suffix # << >>
  THEN FirstName(<< findModel(modelNames, suffix), PrefixOf(sorted, suffix), hit >>)
  ELSE hit

\* Try finding model name as prefix (longest match first)
PrefixStep(modelNames, sorted, relationName, currentModelName, hit) ==
  IF hit = NoName THEN NoName
  ELSE PrefixDecide(modelNames, sorted, currentModelName, hit, sliceFrom(relationName, Len(hit)))

\* the four attempts of extractModelFromRelationName, in order
ExtractSteps(relationName, modelNames, sorted, words, currentModelName) ==
  << FirstWordStep(modelNames, words, currentModelName),
     PrefixStep(modelNames, sorted, relationName, currentModelName, PrefixOf(sorted, relationName)),
     FirstName([ i \in DOMAIN words |-> IF words[i] # << >> THEN findModel(modelNames, words[i]) ELSE NoName ]),
     PickFirst(sorted, [ i \in DOMAIN sorted |-> includes(relationName, sorted[i]) ], NoName) >>

extractModelFromRelationName(relationName, M, currentModelName) ==
  FirstName(ExtractSteps(relationName, M.modelNames, sortedModels(M.modelNames),
                         SplitWords(relationName), currentModelName))

\* the relation name extractModelFromIdField reads from an annotation
AnnotatedRelationName(d) == IF d.rel /\ d.nameForm # "none" THEN d.name ELSE NoName

extractModelFromIdField(idField, M, currentModelName) ==
  IF AnnotatedRelationName(idField.documentation) # NoName
  THEN extractModelFromRelationName(AnnotatedRelationName(idField.documentation), M, currentModelName)
  ELSE NoName

\* the suffix loop of extractModelFromIdFieldName: first of Id, ID, _id, _ID
IdBaseName(idFieldName) ==
  IF endsWith(idFieldName, << "I", "d" >>) THEN dropLast(idFieldName, 2)
  ELSE IF endsWith(idFieldName, << "I", "D" >>) THEN dropLast(idFieldName, 2)
  ELSE IF endsWith(idFieldName, << "_", "i", "d" >>) THEN dropLast(idFieldName, 3)
  ELSE IF endsWith(idFieldName, << "_", "I", "D" >>) THEN dropLast(idFieldName, 3)
  ELSE idFieldName

\* extractModelFromIdFieldName once the base name is matched: the match record
\* that decided, NoMatch for null
IdFieldDecide(idFieldName, M, baseName, result) ==
  IF baseName = idFieldName THEN NoMatch
  ELSE IF result.strategy = "TypeError" THEN result
  ELSE IF result # NoMatch /\ RLt(<< 1, 2 >>, result.confidence) /\ SeqContains(M.modelNames, result.modelName)
    THEN result
  ELSE IF SeqContains(M.modelNames, capitalize(baseName))
    THEN MatchResult(capitalize(baseName), << 1, 1 >>, "capitalizedBase")
  ELSE NoMatch

IdFieldNameTrace(idFieldName, M, currentModelName) ==
  IdFieldDecide(idFieldName, M, IdBaseName(idFieldName), match(M, IdBaseName(idFieldName), currentModelName))

extractModelFromIdFieldName(idFieldName, M, currentModelName) ==
  IdFieldNameTrace(idFieldName, M, currentModelName).modelName

\* the element at an index FirstIndex returned, NoName for "not found"
NameAt(names, idx) == IF idx = 0 THEN NoName ELSE names[idx]

\* allFields.find(f => f.name === variant || f.name.toLowerCase() === variant.toLowerCase())
VariantIndex(allFields, variant) ==
  FirstIndex([ i \in DOMAIN allFields |->
                 allFields[i].name = variant \/ toLowerCase(allFields[i].name) = toLowerCase(variant) ])

\* the three strategies, given what extractModelFromIdField returns for each
\* documented field of the object (docModels) and where <fieldName>Id stands
ForeignKeySteps(fieldName, allFields, docModels, idIdx) ==
  << NameAt(docModels, idIdx),
     IF /\ endsWith(fieldName, << "I", "d" >>)
        /\ \E i \in DOMAIN allFields : allFields[i].name = dropLast(fieldName, 2)
     THEN NameAt(docModels, idIdx) ELSE NoName,
     NameAt(docModels, VariantIndex(allFields, fieldName \o << "I", "d" >>)),
     NameAt(docModels, VariantIndex(allFields, fieldName \o << "I", "D" >>)),
     NameAt(docModels, VariantIndex(allFields, fieldName \o << "_", "i", "d" >>)),
     NameAt(docModels, VariantIndex(allFields, fieldName \o << "_", "I", "D" >>)) >>

\* if (field && field.documentation) extractModelFromIdField(field, ...)
DocModel(field, M, currentModelName) ==
  IF DocPresent(field.documentation) THEN extractModelFromIdField(field, M, currentModelName) ELSE NoName

inferFromForeignKeyPattern(fieldName, allFields, M, currentModelName) ==
  FirstName(ForeignKeySteps(fieldName, allFields,
                            [ i \in DOMAIN allFields |-> DocModel(allFields[i], M, currentModelName) ],
                            FirstIndex([ i \in DOMAIN allFields |-> allFields[i].name = fieldName \o << "I", "d" >> ])))

\* the strategy tag of a result that came through the key name
IdTagged(r) == IF Decisive(r) /\ r.strategy # "TypeError" THEN [r EXCEPT !.strategy = "idField:" \o @] ELSE r

\* the steps of inferRelationModelType, in order, each with the strategy that
\* decides and its confidence (the steps that compare no score report 1, the
\* fallback 0)
InferSteps(fieldName, currentModelName, M, relationName, allFields, relationFields, zodTypeName) ==
  << IF zodTypeName # NoName /\ zodTypeName # nNested /\ zodTypeName # nUnknownEnum
       THEN MatchResult(zodTypeName, << 1, 1 >>, "direct") ELSE NoMatch,
     IF relationName # NoName
       THEN Found(getTargetModelFromGraph(M, relationName, currentModelName), << 1, 1 >>, "graph") ELSE NoMatch,
     IF relationName # NoName
       THEN Found(extractModelFromRelationName(relationName, M, currentModelName), << 1, 1 >>, "relationName")
       ELSE NoMatch,
     IF relationName = NoName /\ relationFields # << >> /\ relationFields[1] # NoName
       THEN IdTagged(IdFieldNameTrace(relationFields[1], M, currentModelName)) ELSE NoMatch,
     Found(inferFromForeignKeyPattern(fieldName, allFields, M, currentModelName), << 1, 1 >>, "foreignKey"),
     match(M, fieldName, currentModelName) >>

\* inferRelationTrace with a fallback that leaves the field name as it is written
inferRelationTraceVerbatim(fieldName, currentModelName, M, relationName, allFields, relationFields, zodTypeName) ==
  FirstDecisive(InferSteps(fieldName, currentModelName, M, relationName, allFields, relationFields, zodTypeName),
                MatchResult(fieldName, << 0, 1 >>, "fallback"))

\* inferRelationModelType with the strategy that decided and its confidence
inferRelationTrace(fieldName, currentModelName, M, relationName, allFields, relationFields, zodTypeName) ==
  FirstDecisive(InferSteps(fieldName, currentModelName, M, relationName, allFields, relationFields, zodTypeName),
                MatchResult(capitalize(fieldName), << 0, 1 >>, "fallback"))

inferRelationModelType(fieldName, currentModelName, M, relationName, allFields, relationFields, zodTypeName) ==
  ModelType(inferRelationTrace(fieldName, currentModelName, M, relationName, allFields,
                               relationFields, zodTypeName).modelName)

(***************************************************************************)
(* Reverse transformer, per field: zodFieldToPrismaField.                  *)
(***************************************************************************)
\* mapType that does not look at the validations of a number
mapTypeNumberAsFloat(t) == IF t.tag = "ZodNumber" THEN ScalarType("Float") ELSE ScalarType("String")

\* mapType of the type-mapping factory (createPrismaType)
RECURSIVE mapType(_)
mapType(t) ==
  CASE t.tag = "ZodString" -> ScalarType("String")
    [] t.tag = "ZodBoolean" -> ScalarType("Boolean")
    [] t.tag = "ZodDate" -> ScalarType("DateTime")
    [] t.tag = "ZodBigInt" -> ScalarType("BigInt")
    [] t.tag \in { "ZodUnknown", "ZodNull", "ZodUndefined", "ZodNaN", "ZodTuple", "ZodRecord" } -> ScalarType("Json")
    [] t.tag = "ZodUnion" -> IF t.options # << >> THEN mapType(t.options[1]) ELSE ScalarType("Json")
    [] t.tag = "ZodNumber" -> IF "Int" \in t.validations THEN ScalarType("Int") ELSE ScalarType("Float")
    [] t.tag = "ZodLiteral" -> IF t.kind = "number" THEN ScalarType("Float")
                               ELSE IF t.kind = "boolean" THEN ScalarType("Boolean")
                               ELSE ScalarType("String")
    [] t.tag = "ZodEnum" -> EnumType(t.name)
    [] t.tag = "ZodObject" -> ModelType(t.name)
    [] t.tag = "ZodArray" -> mapType(t.element)
    [] t.tag \in { "ZodOptional", "ZodNullable", "ZodDefault" } -> mapType(t.inner)
    [] OTHER -> ScalarType("String")

zodTypeToPrismaType(t) == mapType(t)

IsLiteralDefault(v) == v.kind \in { "string", "number", "boolean" }

RECURSIVE Unwrap(_)
\* the while loop that strips optional / nullable / array / default layers
Unwrap(acc) ==
  LET type == acc.type
  IN IF type.tag \in { "ZodOptional", "ZodNullable" }
       THEN Unwrap([acc EXCEPT !.type = type.inner, !.isOptional = TRUE])
     ELSE IF type.tag = "ZodArray"
       THEN Unwrap([acc EXCEPT !.type = type.element, !.isList = TRUE])
     ELSE IF type.tag = "ZodDefault"
       THEN Unwrap([acc EXCEPT !.type = type.inner,
                               !.attributes = IF IsLiteralDefault(type.defaultValue)
                                              THEN Append(@, DefaultAttr([tag |-> "Literal", value |-> type.defaultValue]))
                                              ELSE @])
     ELSE acc

\* the relation name zodFieldToPrismaField parses: name: "..." anywhere, else a leading "..."
ParsedRelationName(d) == IF d.rel /\ d.nameForm # "none" THEN d.name ELSE NoName

\* the attributes pushed after the unwrapping loop, in the source's order
InferredAttributes(field, type) ==
  LET d == field.documentation
      relationName == ParsedRelationName(d)
      idAttrs ==
        IF field.name = nId \/ d.id
        THEN << Attr("Id") >>
             \o (IF type.tag = "ZodString" /\ "Cuid" \in type.validations THEN << DefaultAttr([tag |-> "Cuid"]) >>
                 ELSE IF type.tag = "ZodString" /\ "Uuid" \in type.validations THEN << DefaultAttr([tag |-> "Uuid"]) >>
                 ELSE << >>)
             \o (IF type.tag = "ZodNumber" /\ "Int" \in type.validations
                 THEN << DefaultAttr([tag |-> "AutoIncrement"]) >> ELSE << >>)
        ELSE << >>
      nowAttrs == IF field.name = << "c", "r", "e", "a", "t", "e", "d", "A", "t" >> /\ type.tag = "ZodDate"
                  THEN << DefaultAttr([tag |-> "Now"]) >> ELSE << >>
      updAttrs == IF field.name = << "u", "p", "d", "a", "t", "e", "d", "A", "t" >> /\ type.tag = "ZodDate"
                  THEN << Attr("UpdatedAt") >> ELSE << >>
      uniqAttrs == IF d.unique THEN << Attr("Unique") >> ELSE << >>
      relAttrs ==
        IF ~d.rel THEN << >>
        ELSE IF d.fields # << >> /\ d.references # << >>
          THEN << RelationAttr([name |-> relationName, fields |-> d.fields, references |-> d.references,
                                onDelete |-> d.onDelete, onUpdate |-> d.onUpdate]) >>
        ELSE IF relationName # NoName THEN << RelationAttr(Relation(relationName, << >>, << >>)) >>
        ELSE << >>
      mapAttrs == IF d.map # NoName THEN << [tag |-> "Map", name |-> d.map] >> ELSE << >>
      nativeAttrs == [ i \in DOMAIN d.native |-> [tag |-> "Native", hint |-> d.native[i]] ]
  IN idAttrs \o nowAttrs \o updAttrs \o uniqAttrs \o relAttrs \o mapAttrs \o nativeAttrs

\* relationAttr.relation.fields of the attribute just pushed, [] when none was
RelationFieldsOf(attributes) ==
  PickFirst(attributes, [ i \in DOMAIN attributes |-> attributes[i].tag = "Relation" ],
            RelationAttr(Relation(NoName, << >>, << >>))).relation.fields

\* the unwrapping loop applied to a field's type
Unwrapped(field) ==
  Unwrap([type |-> field.type, isList |-> FALSE, isOptional |-> FALSE, attributes |-> << >>])

\* the call of inferRelationModelType for a field whose layers are unwrapped (un)
TraceOf(field, currentModelName, M, allFields, un) ==
  inferRelationTrace(field.name, currentModelName, M, ParsedRelationName(field.documentation), allFields,
                     RelationFieldsOf(un.attributes \o InferredAttributes(field, un.type)),
                     IF un.type.tag = "ZodObject" THEN un.type.name ELSE NoName)

\* the resolution trace of a field carrying @relation(...); NoMatch for any other field
FieldTrace(field, currentModelName, M, allFields) ==
  IF field.documentation.rel
  THEN TraceOf(field, currentModelName, M, allFields, Unwrapped(field))
  ELSE NoMatch

\* field.documentation?.match(/@db\.(\w+)/)?.[1]: the first @db.X hint, "" for undefined
NativeTypeHint(d) == IF d.native # << >> THEN d.native[1] ELSE ""

\* the type of a field without @relation(...)
PlainType(d, type) ==
  IF NativeTypeHint(d) = "Decimal" THEN ScalarType("Decimal")
  ELSE IF NativeTypeHint(d) = "Json" THEN ScalarType("Json")
  ELSE zodTypeToPrismaType(type)

\* the field zodFieldToPrismaField returns, for the unwrapped layers (un)
PrismaFieldOf(field, currentModelName, M, allFields, un) ==
  [ name |-> field.name,
    type |-> IF field.documentation.rel
             THEN ModelType(TraceOf(field, currentModelName, M, allFields, un).modelName)
             ELSE PlainType(field.documentation, un.type),
    modifiers |-> [ isList |-> IF ~field.documentation.rel /\ NativeTypeHint(field.documentation) = "Json"
                               THEN FALSE ELSE un.isList,
                    isOptional |-> un.isOptional,
                    isUnique |-> field.documentation.unique ],
    attributes |-> un.attributes \o InferredAttributes(field, un.type),
    documentation |-> field.documentation ]

zodFieldToPrismaField(field, currentModelName, M, allFields) ==
  PrismaFieldOf(field, currentModelName, M, allFields, Unwrapped(field))

\* the entity-level annotations (@@index, @@unique, @@id, @@map) are not modelled:
\* zodObjectToPrismaModel copies them and no later pass reads them
zodObjectToPrismaModel(obj, M) ==
  [ name |-> obj.name,
    fields |-> [ i \in DOMAIN obj.fields |-> zodFieldToPrismaField(obj.fields[i], obj.name, M, obj.fields) ],
    attributes |-> << >> ]

\* some field of the schema made the matcher dereference an unknown entity
ConversionThrows(objects, M) ==
  \E i \in DOMAIN objects : \E j \in DOMAIN objects[i].fields :
    FieldTrace(objects[i].fields[j], objects[i].name, M, objects[i].fields).strategy = "TypeError"

(***************************************************************************)
(* Reverse transformer, whole schema: the passes of zodToPrisma.           *)
(***************************************************************************)
\* new Map(models.map(m => [m.name, m])).get(name): a later entity overwrites
ModelMapHas(models, name) == \E i \in DOMAIN models : models[i].name = name

ModelMapGet(models, name) ==
  models[CHOOSE i \in DOMAIN models :
           models[i].name = name /\ \A j \in (i + 1)..Len(models) : models[j].name # name]

isSelfReferentialRelation(fieldType, currentModelName) ==
  fieldType.tag = "Model" /\ fieldType.name = currentModelName

NoPrismaField ==
  [ name |-> NoName, type |-> ScalarType("String"),
    modifiers |-> [isList |-> FALSE, isOptional |-> FALSE, isUnique |-> FALSE],
    attributes |-> << >>, documentation |-> NoDoc ]

findFkFieldForRelation(relationFieldName, model) ==
  PickFirst(model.fields,
            [ i \in DOMAIN model.fields |->
                model.fields[i].name \in { relationFieldName \o << "I", "d" >>, relationFieldName \o << "I", "D" >>,
                                           relationFieldName \o << "_", "i", "d" >>,
                                           relationFieldName \o << "_", "I", "D" >> } ],
            NoPrismaField)

\* the attribute list with the relation attribute replaced, or appended when new
WithRelation(field, rel, isNewAttr) ==
  [field EXCEPT !.attributes =
     IF isNewAttr THEN Append(@, RelationAttr(rel))
     ELSE [ i \in DOMAIN @ |-> IF @[i].tag = "Relation" THEN RelationAttr(rel) ELSE @[i] ]]

\* targetModel.fields.find(f => f.type is the entity named modelName)
BackFieldOf(targetModel, modelName) ==
  PickFirst(targetModel.fields,
            [ i \in DOMAIN targetModel.fields |->
                targetModel.fields[i].type.tag = "Model" /\ targetModel.fields[i].type.name = modelName ],
            NoPrismaField)

\* Check if it is a 1:1 relation to enforce uniqueness on FK
IsOneToOne(field, model, modelMap) ==
  /\ ~field.modifiers.isList
  /\ ModelMapHas(modelMap, field.type.name)
  /\ BackFieldOf(ModelMapGet(modelMap, field.type.name), model.name) # NoPrismaField
  /\ ~BackFieldOf(ModelMapGet(modelMap, field.type.name), model.name).modifiers.isList

\* the field has no key lists yet: infer them from a sibling key scalar (fkField)
InferKeys(field, model, modelMap, rel, isNewAttr, changed, fkField, shouldAddFk) ==
  [ field |-> IF changed \/ shouldAddFk
              THEN WithRelation(field,
                                IF shouldAddFk
                                THEN [rel EXCEPT !.fields = << fkField.name >>, !.references = << nId >>]
                                ELSE rel,
                                isNewAttr)
              ELSE field,
    unique |-> IF shouldAddFk /\ IsOneToOne(field, model, modelMap) THEN fkField.name ELSE NoName ]

\* the relation field once its relation (rel) has a name if it is a self-relation
EnrichNamed(field, model, modelMap, rel, isNewAttr, changed, isSelfRef, fkField) ==
  IF rel.fields # << >> \/ rel.references # << >>
  THEN [field |-> IF changed THEN WithRelation(field, rel, isNewAttr) ELSE field, unique |-> NoName]
  ELSE InferKeys(field, model, modelMap, rel, isNewAttr, changed, fkField,
                 fkField # NoPrismaField /\ (isSelfRef \/ ~field.modifiers.isList))

\* EnrichRelation without the naming of self-relations
EnrichRelationUnnamed(field, model, modelMap, rel, isNewAttr, isSelfRef) ==
  EnrichNamed(field, model, modelMap, rel, isNewAttr, isNewAttr, isSelfRef,
              findFkFieldForRelation(field.name, model))

\* Ensure self-relations have a name
EnrichRelation(field, model, modelMap, rel, isNewAttr, isSelfRef) ==
  EnrichNamed(field, model, modelMap,
              IF isSelfRef /\ rel.name = NoName
              THEN [rel EXCEPT !.name = model.name \o << "T", "o" >> \o model.name] ELSE rel,
              isNewAttr, isNewAttr \/ (isSelfRef /\ rel.name = NoName), isSelfRef,
              findFkFieldForRelation(field.name, model))

\* first pass, one field: [field |-> the updated field, unique |-> the key to make unique or NoName]
EnrichField(field, model, modelMap) ==
  IF ~IsModelType(field.type) THEN [field |-> field, unique |-> NoName]
  ELSE EnrichRelation(field, model, modelMap, RelationOf(field), ~HasAttr(field, "Relation"),
                      isSelfReferentialRelation(field.type, model.name))

\* Apply unique constraints to FK fields for 1:1 relations
MarkUnique(f, fieldsToMakeUnique) ==
  IF f.name \in fieldsToMakeUnique /\ ~HasAttr(f, "Unique")
  THEN [f EXCEPT !.attributes = Append(@, [tag |-> "Unique", unique |-> << >>])]
  ELSE f

\* the entity with its enriched fields, the collected keys marked unique
FinalFields(model, enriched) ==
  [model EXCEPT !.fields =
     [ i \in DOMAIN enriched |->
         MarkUnique(enriched[i].field, { enriched[j].unique : j \in DOMAIN enriched } \ { NoName }) ]]

\* first pass, one entity
EnrichModel(model, modelMap) ==
  FinalFields(model, [ i \in DOMAIN model.fields |-> EnrichField(model.fields[i], model, modelMap) ])

FirstPass(models, modelMap) == [ i \in DOMAIN models |-> EnrichModel(models[i], modelMap) ]

GeneratedDoc == [NoDoc EXCEPT !.text = "Autogenerated back-relation"]

\* newFieldsByModel.get(name) || []
NewFieldsOf(newFieldsByModel, name) ==
  IF name \in DOMAIN newFieldsByModel THEN newFieldsByModel[name] ELSE << >>

\* Special cases for self-relations
SelfRelationName(field, model, base) ==
  IF model.name # field.type.name THEN base
  ELSE IF field.name = << "p", "a", "r", "e", "n", "t" >> \/ field.name = << "p", "a", "r", "e", "n", "t", "I", "d" >>
    THEN << "c", "h", "i", "l", "d", "r", "e", "n" >>
  ELSE IF field.name = << "m", "a", "n", "a", "g", "e", "r" >>
    THEN << "e", "m", "p", "l", "o", "y", "e", "e", "s" >>
  ELSE IF field.name = << "s", "u", "p", "e", "r", "v", "i", "s", "o", "r" >>
    THEN << "s", "u", "b", "o", "r", "d", "i", "n", "a", "t", "e", "s" >>
  ELSE base

\* suggestBackRelationName(...) || `${lowerFirst(model.name)}s`
SuggestedOrDefault(suggested, model) ==
  IF suggested # NoName THEN suggested ELSE uncapitalize(model.name) \o << "s" >>

\* the name the second pass gives the back-relation field of model.field
BackFieldName(field, model, modelNames) ==
  SelfRelationName(field, model,
                   SuggestedOrDefault(suggestBackRelationName(field.name, model.name, modelNames), model))

\* hasBackRelation that looks only at the fields collected so far
hasBackRelationAmongNew(targetModel, model, newFieldsByModel) ==
  \E i \in DOMAIN NewFieldsOf(newFieldsByModel, targetModel.name) :
    NewFieldsOf(newFieldsByModel, targetModel.name)[i].type.name = model.name

\* Skip if back-relation already exists
hasBackRelation(targetModel, model, newFieldsByModel) ==
  \/ \E i \in DOMAIN targetModel.fields :
       targetModel.fields[i].type.tag = "Model" /\ targetModel.fields[i].type.name = model.name
  \/ \E i \in DOMAIN NewFieldsOf(newFieldsByModel, targetModel.name) :
       NewFieldsOf(newFieldsByModel, targetModel.name)[i].type.name = model.name

\* a synthesized field that copies the whole relation of the owning field
BackFieldWithKeys(field, model, models, rel) ==
  [ name |-> BackFieldName(field, model, [ i \in DOMAIN models |-> models[i].name ]),
    type |-> ModelType(model.name),
    modifiers |-> [isList |-> TRUE, isOptional |-> FALSE, isUnique |-> FALSE],
    attributes |-> << RelationAttr(rel) >>,
    documentation |-> GeneratedDoc ]

\* the synthesized field: a list of the owning entity, the relation name copied
BackField(field, model, models, rel) ==
  [ name |-> BackFieldName(field, model, [ i \in DOMAIN models |-> models[i].name ]),
    type |-> ModelType(model.name),
    modifiers |-> [isList |-> TRUE, isOptional |-> FALSE, isUnique |-> FALSE],
    attributes |-> IF rel.name # NoName THEN << RelationAttr(Relation(rel.name, << >>, << >>)) >> ELSE << >>,
    documentation |-> GeneratedDoc ]

\* second pass, the loop body for one field of one entity
CollectField(newFieldsByModel, field, model, models, modelMap) ==
  IF ~HasAttr(field, "Relation") THEN newFieldsByModel
  ELSE IF field.type.tag \notin { "Model", "Enum" } THEN newFieldsByModel
  ELSE IF ~ModelMapHas(modelMap, field.type.name) THEN newFieldsByModel
  ELSE IF hasBackRelation(ModelMapGet(modelMap, field.type.name), model, newFieldsByModel) THEN newFieldsByModel
  ELSE (field.type.name :> Append(NewFieldsOf(newFieldsByModel, field.type.name),
                                  BackField(field, model, models, RelationOf(field))))
         @@ newFieldsByModel

RECURSIVE CollectFields(_, _, _, _, _)
CollectFields(newFieldsByModel, fields, model, models, modelMap) ==
  IF fields = << >> THEN newFieldsByModel
  ELSE CollectFields(CollectField(newFieldsByModel, Head(fields), model, models, modelMap),
                     Tail(fields), model, models, modelMap)

RECURSIVE CollectModels(_, _, _, _)
CollectModels(newFieldsByModel, rest, models, modelMap) ==
  IF rest = << >> THEN newFieldsByModel
  ELSE CollectModels(CollectFields(newFieldsByModel, Head(rest).fields, Head(rest), models, modelMap),
                     Tail(rest), models, modelMap)

SecondPass(models, modelMap) == CollectModels(<< >>, models, models, modelMap)

\* the entity's fields that no extra replaces, followed by the extras
WithExtras(model, extras) ==
  [model EXCEPT !.fields =
     Filter(@, [ i \in DOMAIN @ |-> \A j \in DOMAIN extras : extras[j].name # @[i].name ]) \o extras]

\* Apply back-relations
ApplyExtras(model, newFieldsByModel) ==
  IF model.name \notin DOMAIN newFieldsByModel THEN model
  ELSE WithExtras(model, newFieldsByModel[model.name])

ApplyPass(models, newFieldsByModel) ==
  [ i \in DOMAIN models |-> ApplyExtras(models[i], newFieldsByModel) ]

zodEnumToPrismaEnum(e) == [name |-> e.name, values |-> e.values]

(***************************************************************************)
(* Forward transformer: prismaToZod.                                       *)
(***************************************************************************)
prismaTypeToZodType(prismaType) ==
  CASE prismaType.tag = "Enum" -> ZEnum(prismaType.name)
    [] prismaType.tag = "Model" -> ZObject(prismaType.name)
    [] prismaType.tag = "String" -> ZString({})
    [] prismaType.tag = "Int" -> ZNumber({ "Int" })
    [] prismaType.tag = "BigInt" -> ZLeaf("ZodBigInt")
    [] prismaType.tag \in { "Float", "Decimal" } -> ZNumber({})
    [] prismaType.tag = "Boolean" -> ZLeaf("ZodBoolean")
    [] prismaType.tag = "DateTime" -> ZLeaf("ZodDate")
    [] OTHER -> ZLeaf("ZodUnknown")

isRelationField(field) == HasAttr(field, "Relation")

\* defaultValue of a non-literal default
Undefined == [kind |-> "undefined", text |-> ""]

fieldToZodField(field) ==
  LET base == prismaTypeToZodType(field.type)
      listed == IF field.modifiers.isList THEN ZArray(base) ELSE base
      hasDefault == HasAttr(field, "Default")
      opt == IF field.modifiers.isOptional /\ ~hasDefault THEN ZOptional(listed) ELSE listed
      defaultAttr == PickFirst(field.attributes, [ i \in DOMAIN field.attributes |-> field.attributes[i].tag = "Default" ],
                               DefaultAttr([tag |-> "none"]))
      defaultValue == IF defaultAttr.value.tag = "Literal" THEN defaultAttr.value.value ELSE Undefined
  IN ZodField(field.name, IF hasDefault THEN ZDefault(opt, defaultValue) ELSE opt, field.documentation)

\* modelToZodObject without the filter on @ignore
modelToZodObjectKeepIgnored(model) ==
  ZodObjectDef(model.name,
    LET kept == SelectSeq(model.fields, LAMBDA f : ~isRelationField(f))
    IN [ i \in DOMAIN kept |-> fieldToZodField(kept[i]) ])

\* the entity's documentation is copied through and read by nothing modelled here
modelToZodObject(model) ==
  ZodObjectDef(model.name,
    LET kept == SelectSeq(SelectSeq(model.fields, LAMBDA f : ~isRelationField(f)),
                          LAMBDA f : ~HasAttr(f, "Ignore"))
    IN [ i \in DOMAIN kept |-> fieldToZodField(kept[i]) ])

enumToZodEnum(prismaEnum) == ZodEnumDef(prismaEnum.name, prismaEnum.values)

prismaToZod(prisma) ==
  [ objects |-> LET kept == SelectSeq(prisma.models, LAMBDA m : ~HasAttr(m, "Ignore"))
                IN [ i \in DOMAIN kept |-> modelToZodObject(kept[i]) ],
    enums |-> [ i \in DOMAIN prisma.enums |-> enumToZodEnum(prisma.enums[i]) ] ]

(***************************************************************************)
(* PrismaParserLive.validate                                               *)
(***************************************************************************)
InvalidModelError(modelName, reason, field) ==
  [tag |-> "InvalidModel", modelName |-> modelName, reason |-> reason, field |-> field]

\* one error for every field whose name an earlier field of the entity already has
DuplicateFieldErrors(model) ==
  LET dup == Filter(model.fields,
                    [ i \in DOMAIN model.fields |-> \E j \in 1..(i - 1) : model.fields[j].name = model.fields[i].name ])
  IN [ i \in DOMAIN dup |-> InvalidModelError(model.name, "Duplicate field", dup[i].name) ]

ModelErrors(model) ==
  (IF model.fields = << >> THEN << InvalidModelError(model.name, "Model has no fields", NoName) >> ELSE << >>)
  \o DuplicateFieldErrors(model)

EnumErrors(enumDef) ==
  IF enumDef.values = << >> THEN << InvalidModelError(enumDef.name, "Enum has no values", NoName) >> ELSE << >>

\* the errors array validate has collected when the loops end
ValidationErrors(schema) ==
  Concat([ i \in DOMAIN schema.models |-> ModelErrors(schema.models[i]) ])
  \o Concat([ i \in DOMAIN schema.enums |-> EnumErrors(schema.enums[i]) ])

\* a validate that never fails
validateNothing(schema) == << >>

\* the failure channel of validate: Effect.fail(errors[0]!)
validate(schema) ==
  LET errs == ValidationErrors(schema)
  IN IF errs # << >> THEN << errs[1] >> ELSE << >>

(***************************************************************************)
(* Module grouping: groupByDomain without a domain config.                 *)
(***************************************************************************)
\* code-unit order of the characters that occur in names
CodeOrder == << "0", "1", "2", "3", "4", "5", "6", "7", "8", "9" >> \o UpperChars \o << "_" >> \o LowerChars

CodeOf(c) == CHOOSE i \in DOMAIN CodeOrder : CodeOrder[i] = c

RECURSIVE NameLess(_, _)
\* a < b for two strings, compared code unit by code unit
NameLess(a, b) ==
  IF b = << >> THEN FALSE
  ELSE IF a = << >> THEN TRUE
  ELSE IF Head(a) = Head(b) THEN NameLess(Tail(a), Tail(b))
  ELSE CodeOf(Head(a)) < CodeOf(Head(b))

RECURSIVE InsertSorted(_, _)
InsertSorted(sorted, x) ==
  IF sorted = << >> THEN << x >>
  ELSE IF NameLess(x, Head(sorted)) THEN << x >> \o sorted
  ELSE << Head(sorted) >> \o InsertSorted(Tail(sorted), x)

RECURSIVE SortNames(_)
\* Array.from(set).sort()
SortNames(names) == IF names = << >> THEN << >> ELSE InsertSorted(SortNames(Tail(names)), Head(names))

\* Set.prototype.add on an insertion-ordered set
SetAdd(seq, x) == IF SeqContains(seq, x) THEN seq ELSE Append(seq, x)

RECURSIVE SetAddAll(_, _)
SetAddAll(seq, xs) == IF xs = << >> THEN seq ELSE SetAddAll(SetAdd(seq, Head(xs)), Tail(xs))

toTitleCase(str) == capitalize(str)

pluralize(str) ==
  IF endsWith(str, << "s" >>) \/ endsWith(str, << "x" >>) \/ endsWith(str, << "z" >>)
    THEN str \o << "e", "s" >>
  ELSE IF endsWith(str, << "y" >>) THEN dropLast(str, 1) \o << "i", "e", "s" >>
  ELSE str \o << "s" >>

\* the names one object's fields add to its relation set, in field order
RelationsOfObject(obj) ==
  LET Ref(f) == IF f.type.tag = "ZodObject" /\ f.type.name # nNested THEN << f.type.name >>
                ELSE IF f.type.tag = "ZodArray" /\ f.type.element.tag = "ZodObject"
                  THEN << f.type.element.name >>
                ELSE << >>
  IN SetAddAll(<< >>, Concat([ i \in DOMAIN obj.fields |-> Ref(obj.fields[i]) ]))

\* graph.get(name): the relation set of the last object of that name
buildRelationshipGraph(schema) ==
  [ name \in { schema.objects[i].name : i \in DOMAIN schema.objects } |->
      RelationsOfObject(ModelMapGet(schema.objects, name)) ]

RECURSIVE Bfs(_, _, _, _, _, _)
\* the while loop over the queue: [visited, cluster] when the queue is empty
Bfs(queue, visited, cluster, models, graph, keys) ==
  IF queue = << >> THEN [visited |-> visited, cluster |-> cluster]
  ELSE LET current == Head(queue)
           seen == visited \cup { current }
           relations == IF current \in DOMAIN graph THEN graph[current] ELSE << >>
           related == SelectSeq(relations, LAMBDA r : r \notin seen /\ SeqContains(models, r))
           referrers == SelectSeq(keys, LAMBDA o : o \notin seen /\ SeqContains(models, o)
                                                   /\ SeqContains(graph[o], current))
       IN IF current \in visited
          THEN Bfs(Tail(queue), visited, cluster, models, graph, keys)
          ELSE Bfs(Tail(queue) \o related \o referrers, seen, Append(cluster, current), models, graph, keys)

RECURSIVE ClustersFromEach(_, _, _, _, _)
\* the outer loop of clusterByRelationships with a visited set that forgets
\* the clusters already found
ClustersFromEach(rest, visited, models, graph, keys) ==
  IF rest = << >> THEN << >>
  ELSE LET r == Bfs(<< Head(rest) >>, visited, << >>, models, graph, keys)
       IN (IF r.cluster # << >> THEN << r.cluster >> ELSE << >>)
          \o ClustersFromEach(Tail(rest), visited, models, graph, keys)

RECURSIVE ClustersFrom(_, _, _, _, _)
ClustersFrom(rest, visited, models, graph, keys) ==
  IF rest = << >> THEN << >>
  ELSE IF Head(rest) \in visited THEN ClustersFrom(Tail(rest), visited, models, graph, keys)
  ELSE LET r == Bfs(<< Head(rest) >>, visited, << >>, models, graph, keys)
       IN (IF r.cluster # << >> THEN << r.cluster >> ELSE << >>)
          \o ClustersFrom(Tail(rest), r.visited, models, graph, keys)

\* graph.entries() restricted by models.includes: both follow the order of schema.objects
ClusterKeys(graph, models) ==
  SelectSeq(SetAddAll(<< >>, models), LAMBDA m : m \in DOMAIN graph)

clusterByRelationships(models, graph) ==
  ClustersFrom(models, {}, models, graph, ClusterKeys(graph, models))

Count(seq, x) == Cardinality({ i \in DOMAIN seq : seq[i] = x })

RECURSIVE InsertByCount(_, _, _)
InsertByCount(sorted, x, all) ==
  IF sorted = << >> THEN << x >>
  ELSE IF Count(all, Head(sorted)) >= Count(all, x) THEN << Head(sorted) >> \o InsertByCount(Tail(sorted), x, all)
  ELSE << x >> \o sorted

RECURSIVE SortByCountDesc(_, _, _)
\* .sort((a, b) => b[1] - a[1]), a stable sort
SortByCountDesc(terms, k, all) ==
  IF k = 0 THEN << >> ELSE InsertByCount(SortByCountDesc(terms, k - 1, all), terms[k], all)

extractCommonTerms(names) ==
  LET allTerms == Concat([ i \in DOMAIN names |-> SplitWords(names[i]) ])
      present == SelectSeq(allTerms, LAMBDA t : t # << >>)
      repeated == SelectSeq(SetAddAll(<< >>, present), LAMBDA t : Count(present, t) > 1)
  IN SortByCountDesc(repeated, Len(repeated), present)

nMisc == << "m", "i", "s", "c" >>

nCommon == << "c", "o", "m", "m", "o", "n" >>

inferDomainName(models) ==
  IF models = << >> THEN nMisc
  ELSE IF Len(models) = 1 THEN toLowerCase(models[1])
  ELSE IF extractCommonTerms(models) # << >> THEN toLowerCase(extractCommonTerms(models)[1])
  ELSE IF models[1] # << >> THEN pluralize(toLowerCase(models[1]))
  ELSE nMisc

\* a usesEnum that looks through no wrapper
usesEnumDirectly(type, enumName) == type.tag = "ZodEnum" /\ type.name = enumName

RECURSIVE usesEnum(_, _)
usesEnum(type, enumName) ==
  IF type.tag = "ZodEnum" /\ type.name = enumName THEN TRUE
  ELSE IF type.tag \in { "ZodOptional", "ZodNullable", "ZodDefault" } THEN usesEnum(type.inner, enumName)
  ELSE IF type.tag = "ZodArray" THEN usesEnum(type.element, enumName)
  ELSE FALSE

findModelsUsingEnum(schema, enumName) ==
  LET using == SelectSeq(schema.objects,
                         LAMBDA obj : \E i \in DOMAIN obj.fields : usesEnum(obj.fields[i].type, enumName))
  IN [ i \in DOMAIN using |-> using[i].name ]

\* the groups map: a sequence of [domain, models, enums] in insertion order
HasGroup(groups, domain) == \E i \in DOMAIN groups : groups[i].domain = domain

getGroup(groups, domain) ==
  IF HasGroup(groups, domain) THEN groups
  ELSE Append(groups, [domain |-> domain, models |-> << >>, enums |-> << >>])

AddModels(groups, domain, cluster) ==
  LET gs == getGroup(groups, domain)
  IN [ i \in DOMAIN gs |-> IF gs[i].domain = domain
                           THEN [gs[i] EXCEPT !.models = SetAddAll(@, cluster)] ELSE gs[i] ]

AddEnum(groups, domain, enumName) ==
  LET gs == getGroup(groups, domain)
  IN [ i \in DOMAIN gs |-> IF gs[i].domain = domain
                           THEN [gs[i] EXCEPT !.enums = SetAdd(@, enumName)] ELSE gs[i] ]

RECURSIVE AssignClusters(_, _)
AssignClusters(groups, clusters) ==
  IF clusters = << >> THEN groups
  ELSE AssignClusters(AddModels(groups, inferDomainName(Head(clusters)), Head(clusters)), Tail(clusters))

\* one iteration of the loop over schema.enums
AssignEnum(groups, schema, enumName) ==
  LET usingModels == findModelsUsingEnum(schema, enumName)
      holders == SelectSeq(groups, LAMBDA g : SeqContains(g.models, usingModels[1]))
  IN IF usingModels # << >>
     THEN IF holders # << >> THEN AddEnum(groups, holders[1].domain, enumName) ELSE groups
     ELSE AddEnum(groups, nCommon, enumName)

RECURSIVE AssignEnums(_, _, _)
AssignEnums(groups, schema, enums) ==
  IF enums = << >> THEN groups
  ELSE AssignEnums(AssignEnum(groups, schema, Head(enums).name), schema, Tail(enums))

RECURSIVE InsertGroup(_, _)
InsertGroup(sorted, g) ==
  IF sorted = << >> THEN << g >>
  ELSE IF NameLess(g.name, Head(sorted).name) THEN << g >> \o sorted
  ELSE << Head(sorted) >> \o InsertGroup(Tail(sorted), g)

RECURSIVE SortGroups(_, _)
\* .sort((a, b) => a.name.localeCompare(b.name)), a stable sort
SortGroups(gs, k) == IF k = 0 THEN << >> ELSE InsertGroup(SortGroups(gs, k - 1), gs[k])

ModuleGroup(g) ==
  [ name |-> toLowerCase(g.domain), displayName |-> toTitleCase(g.domain),
    models |-> SortNames(g.models), enums |-> SortNames(g.enums) ]

groupByDomain(schema) ==
  LET relationshipGraph == buildRelationshipGraph(schema)
      modelClusters == clusterByRelationships([ i \in DOMAIN schema.objects |-> schema.objects[i].name ],
                                              relationshipGraph)
      groups == AssignEnums(AssignClusters(<< >>, modelClusters), schema, schema.enums)
      out == [ i \in DOMAIN groups |-> ModuleGroup(groups[i]) ]
  IN SortGroups(out, Len(out))

\* sync's config: the two paths are fixed, the mode is an input
PrismaPath == << "s", "c", "h", "e", "m", "a", ".", "p", "r", "i", "s", "m", "a" >>

ZodPath == << "o", "u", "t" >>

SyncConfig(modular) == [prismaPath |-> PrismaPath, zodPath |-> ZodPath, modular |-> modular]

\* a call on the FileSystem service
FsCall(op, path) == [op |-> op, path |-> path]

(***************************************************************************)
(* Modular generation: generateModularFiles and writeModularFiles.  The    *)
(* text of a file is not modelled: the content of a GeneratedFile names    *)
(* the function that generates it and what that function is called on.    *)
(***************************************************************************)
RECURSIVE HyphenateLowerUpper(_)
\* .replace(/([a-z0-9])([A-Z])/g, "$1-$2")
HyphenateLowerUpper(str) ==
  IF Len(str) < 2 THEN str
  ELSE IF str[1] \in LowerSet \cup DigitSet /\ str[2] \in UpperSet
    THEN << str[1], "-", str[2] >> \o HyphenateLowerUpper(sliceFrom(str, 2))
  ELSE << str[1] >> \o HyphenateLowerUpper(Tail(str))

RECURSIVE HyphenateAcronym(_)
\* .replace(/([A-Z])([A-Z][a-z])/g, "$1-$2")
HyphenateAcronym(str) ==
  IF Len(str) < 3 THEN str
  ELSE IF str[1] \in UpperSet /\ str[2] \in UpperSet /\ str[3] \in LowerSet
    THEN << str[1], "-", str[2], str[3] >> \o HyphenateAcronym(sliceFrom(str, 3))
  ELSE << str[1] >> \o HyphenateAcronym(Tail(str))

toKebabCase(str) == toLowerCase(HyphenateAcronym(HyphenateLowerUpper(str)))

nEnums == << "e", "n", "u", "m", "s" >>

IndexTs == << "i", "n", "d", "e", "x", ".", "t", "s" >>

GeneratedFile(path, by, of) == [path |-> path, content |-> [by |-> by, of |-> of]]

\* the key of the first group that lists the name, NoName when none does
FirstGroupWith(groups, name, models) ==
  PickFirst([ g \in DOMAIN groups |-> groups[g].name ],
            [ g \in DOMAIN groups |-> SeqContains(IF models THEN groups[g].models ELSE groups[g].enums, name) ],
            NoName)

\* modelsByGroup.get(groupName) when the loop over schema.objects is over
ModelsByGroup(schema, groups, groupName) ==
  Filter(schema.objects,
         [ i \in DOMAIN schema.objects |-> FirstGroupWith(groups, schema.objects[i].name, TRUE) = groupName ])

\* Generate enum files (always in enums/), and the enums index
EnumFiles(schema, baseDir) ==
  [ i \in DOMAIN schema.enums |->
      GeneratedFile(baseDir \o << "/" >> \o nEnums \o << "/" >> \o toKebabCase(schema.enums[i].name) \o << ".", "t", "s" >>,
                    "generateEnumFile", schema.enums[i].name) ]
  \o << GeneratedFile(baseDir \o << "/" >> \o nEnums \o << "/" >> \o IndexTs, "generateEnumsIndex", NoName) >>

\* the body of the loop over modelsByGroup.entries() for one key
GroupFiles(schema, groups, baseDir, groupName) ==
  IF groupName = nEnums THEN << >>
  ELSE [ i \in DOMAIN ModelsByGroup(schema, groups, groupName) |->
           GeneratedFile(baseDir \o << "/" >> \o groupName \o << "/" >>
                           \o toKebabCase(ModelsByGroup(schema, groups, groupName)[i].name)
                           \o << ".", "s", "c", "h", "e", "m", "a", ".", "t", "s" >>,
                         "generateSchemaFile", ModelsByGroup(schema, groups, groupName)[i].name) ]
       \o << GeneratedFile(baseDir \o << "/" >> \o groupName \o << "/" >> \o IndexTs, "generateModuleIndex", groupName) >>

\* the keys of modelsByGroup, in insertion order
GroupKeys(groups) == SetAddAll(<< >>, [ g \in DOMAIN groups |-> groups[g].name ])

generateModularFiles(schema, baseDir, groups) ==
  EnumFiles(schema, baseDir)
  \o Concat([ k \in DOMAIN GroupKeys(groups) |-> GroupFiles(schema, groups, baseDir, GroupKeys(groups)[k]) ])
  \o << GeneratedFile(baseDir \o << "/" >> \o IndexTs, "generateRootIndex", NoName) >>

\* file.path.lastIndexOf("/"), counted from 1; 0 when there is no slash
LastSlash(path) ==
  IF \E i \in DOMAIN path : path[i] = "/" THEN CHOOSE i \in DOMAIN path : path[i] = "/" /\ \A k \in DOMAIN path : path[k] = "/" => k <= i
  ELSE 0

\* file.path.substring(0, lastSlash)
DirOf(path) == IF LastSlash(path) <= 1 THEN << >> ELSE SubSeq(path, 1, LastSlash(path) - 1)

\* the calls writeModularFiles makes when none fails
WriteCalls(fileList) ==
  Concat([ i \in DOMAIN fileList |->
             << FsCall("makeDirectory", DirOf(fileList[i].path)), FsCall("writeFile", fileList[i].path) >> ])

(***************************************************************************)
(* The names the input schemas are built from.                             *)
(***************************************************************************)
nUser == << "U", "s", "e", "r" >>

nPost == << "P", "o", "s", "t" >>

nUserProfile == << "U", "s", "e", "r", "P", "r", "o", "f", "i", "l", "e" >>

nUserAccount == << "U", "s", "e", "r", "A", "c", "c", "o", "u", "n", "t" >>

nXPost == << "X", "P", "o", "s", "t" >>

nGhost == << "G", "h", "o", "s", "t" >>

nRole == << "R", "o", "l", "e" >>

fAuthor == << "a", "u", "t", "h", "o", "r" >>

fAuthorId == << "a", "u", "t", "h", "o", "r", "I", "d" >>

fEditor == << "e", "d", "i", "t", "o", "r" >>

fEditorId == << "e", "d", "i", "t", "o", "r", "I", "d" >>

fPostsId == << "p", "o", "s", "t", "s", "I", "d" >>

fOstsAuthor == << "o", "s", "t", "s", "A", "u", "t", "h", "o", "r" >>

fPosts == << "p", "o", "s", "t", "s" >>

fParent == << "p", "a", "r", "e", "n", "t" >>

fParentId == << "p", "a", "r", "e", "n", "t", "I", "d" >>

fChildren == << "c", "h", "i", "l", "d", "r", "e", "n" >>

fOwner == << "o", "w", "n", "e", "r" >>

nUserId == << "U", "s", "e", "r", "I", "d" >>

fWriter == << "w", "r", "i", "t", "e", "r" >>

fTitle == << "t", "i", "t", "l", "e" >>

fEmail == << "e", "m", "a", "i", "l" >>

fLegacy == << "l", "e", "g", "a", "c", "y" >>

fProfile == << "p", "r", "o", "f", "i", "l", "e" >>

fNickname == << "n", "i", "c", "k", "n", "a", "m", "e" >>

fCreatedAt == << "c", "r", "e", "a", "t", "e", "d", "A", "t" >>

fScore == << "s", "c", "o", "r", "e" >>

fRole == << "r", "o", "l", "e" >>

nWritten == << "W", "r", "i", "t", "t", "e", "n" >>

nEdited == << "E", "d", "i", "t", "e", "d" >>

nTree == << "T", "r", "e", "e" >>

nUserProfileOwner == nUserProfile \o << "O", "w", "n", "e", "r" >>

nUserProfiles == nUserProfile \o << "s" >>

nPostOwner == nPost \o << "O", "w", "n", "e", "r" >>

nPostUser == nPost \o nUser

nUserPosts == << "U", "s", "e", "r", "P", "o", "s", "t", "s" >>

nPostAuthor == << "P", "o", "s", "t", "A", "u", "t", "h", "o", "r" >>

nADMIN == << "A", "D", "M", "I", "N" >>

nGUEST == << "G", "U", "E", "S", "T" >>

(***************************************************************************)
(* Input schemas of the reverse transformer.                               *)
(*                                                                         *)
(* An object is an id field followed by relation fields, each preceded by  *)
(* its foreign-key scalar when it has one.  A relation field is described  *)
(* by a template:                                                          *)
(*   name, fk    the field's name and the name of its key scalar (or none) *)
(*   shape       "one", "opt" (optional) or "list" (array)                 *)
(*   typed       the type names the target object; otherwise z.unknown()   *)
(*   self        the target is the owning object                           *)
(*   rel         the documentation carries @relation(...)                  *)
(*   relName, nameForm, keys   the relation name and how it is written,    *)
(*               and whether fields: [fk], references: [id] are written    *)
(***************************************************************************)
Template(name, fk, shape, typed, self, rel, relName, nameForm, keys) ==
  [ name |-> name, fk |-> fk, shape |-> shape, typed |-> typed, self |-> self, rel |-> rel,
    relName |-> relName, nameForm |-> nameForm, keys |-> keys ]

Templates ==
  << Template(fAuthor, fAuthorId, "one", TRUE, FALSE, TRUE, nWritten, "positional", TRUE),
     Template(fEditor, fEditorId, "one", TRUE, FALSE, TRUE, nEdited, "positional", TRUE),
     Template(fAuthor, fAuthorId, "one", TRUE, FALSE, TRUE, NoName, "none", TRUE),
     Template(fPosts, NoName, "list", TRUE, FALSE, TRUE, nWritten, "positional", FALSE),
     Template(fPosts, NoName, "list", TRUE, FALSE, FALSE, NoName, "none", FALSE),
     Template(fParent, fParentId, "opt", TRUE, TRUE, TRUE, NoName, "none", TRUE),
     Template(fParent, fParentId, "opt", TRUE, TRUE, FALSE, NoName, "none", FALSE),
     Template(fParent, fParentId, "opt", TRUE, TRUE, TRUE, nTree, "positional", TRUE),
     Template(fChildren, NoName, "list", TRUE, TRUE, TRUE, nTree, "positional", FALSE),
     Template(fChildren, NoName, "list", TRUE, TRUE, FALSE, NoName, "none", FALSE),
     Template(fOwner, nUserId, "one", FALSE, FALSE, TRUE, NoName, "none", TRUE),
     Template(fWriter, nUserId, "one", TRUE, FALSE, TRUE, nPostAuthor, "nameFirst", TRUE),
     Template(fLegacy, NoName, "one", FALSE, FALSE, TRUE, NoName, "none", FALSE),
     Template(fAuthor, fAuthorId, "one", FALSE, FALSE, TRUE, nUserPosts, "positional", TRUE),
     Template(fEditor, fEditorId, "one", FALSE, FALSE, TRUE, nUserPosts, "nameLater", TRUE),
     Template(fPosts, fPostsId, "list", TRUE, FALSE, FALSE, NoName, "none", FALSE),
     Template(fOstsAuthor, NoName, "list", TRUE, FALSE, FALSE, NoName, "none", FALSE) >>

EntityNames == << nUser, nPost >>

\* the object lists of the input schemas: both entities, in either order, or Post alone
ObjectOrders == { << nUser, nPost >>, << nPost, nUser >>, << nPost >> }

\* the relation fields an object may carry: a template and its target
OptionsOf(owner) ==
  Concat([ t \in DOMAIN Templates |->
             IF ~Templates[t].typed THEN << [tpl |-> t, target |-> NoName] >>
             ELSE IF Templates[t].self THEN << [tpl |-> t, target |-> owner] >>
             ELSE [ k \in DOMAIN EntityNames |-> [tpl |-> t, target |-> EntityNames[k]] ] ])

TemplateDoc(tpl) ==
  IF ~tpl.rel THEN NoDoc
  ELSE [NoDoc EXCEPT !.rel = TRUE, !.nameForm = tpl.nameForm, !.name = tpl.relName,
                     !.fields = IF tpl.keys THEN << tpl.fk >> ELSE << >>,
                     !.references = IF tpl.keys THEN << nId >> ELSE << >>,
                     !.onDelete = IF tpl.relName = NoName /\ ~tpl.keys THEN "Cascade" ELSE ""]

Shaped(shape, t) ==
  IF shape = "opt" THEN ZOptional(t) ELSE IF shape = "list" THEN ZArray(t) ELSE t

RelationField(option) ==
  LET tpl == Templates[option.tpl]
  IN ZodField(tpl.name, Shaped(tpl.shape, IF tpl.typed THEN ZObject(option.target) ELSE ZLeaf("ZodUnknown")),
              TemplateDoc(tpl))

KeyField(option) ==
  LET tpl == Templates[option.tpl]
  IN ZodField(tpl.fk, IF tpl.shape = "opt" THEN ZOptional(ZString({})) ELSE ZString({}), NoDoc)

IdField == ZodField(nId, ZString({ "Cuid" }), NoDoc)

RECURSIVE BuildFields(_, _)
\* the fields so far, extended by the key scalars and relation fields of the options
BuildFields(fields, options) ==
  IF options = << >> THEN fields
  ELSE LET o == Head(options)
           fk == Templates[o.tpl].fk
           withKey == IF fk # NoName /\ \A i \in DOMAIN fields : fields[i].name # fk
                      THEN Append(fields, KeyField(o)) ELSE fields
       IN BuildFields(Append(withKey, RelationField(o)), Tail(options))

BuildObject(owner, picks) ==
  ZodObjectDef(owner, BuildFields(<< IdField >>, [ i \in DOMAIN picks |-> OptionsOf(owner)[picks[i]] ]))

(***************************************************************************)
(* State.                                                                  *)
(*   pc                where the call stands                               *)
(*   zod               the validation schema (input of zodToPrisma and of  *)
(*                     groupByDomain, output of prismaToZod)               *)
(*   prisma            the relational schema (input of validate and        *)
(*                     prismaToZod; the models and enums of zodToPrisma)   *)
(*   matcher           zodToPrisma's PureFSTRelationMatcher instance       *)
(*   modelMap          zodToPrisma's modelMap: the entities as first       *)
(*                     converted                                           *)
(*   newFieldsByModel  the back-relation fields collected by the second    *)
(*                     pass                                                *)
(*   errors, failure   validate's errors array and what its failure        *)
(*                     channel carries                                     *)
(*   groups            the result of groupByDomain                         *)
(*   config            sync's SyncConfig: whether the output is modular    *)
(*   files             what sync has generated: the GeneratedFile list of  *)
(*                     generateModularFiles, or the code of the generator  *)
(*   fsLog             the calls sync has made on the FileSystem service   *)
(***************************************************************************)
VARIABLES pc, zod, prisma, matcher, modelMap, newFieldsByModel, errors, failure, groups, config, files, fsLog

vars == << pc, zod, prisma, matcher, modelMap, newFieldsByModel, errors, failure, groups, config, files, fsLog >>

\* the most relation fields one input schema of zodToPrisma carries
MaxRelationFields == 2

EmptyZod == [objects |-> << >>, enums |-> << >>]

EmptyPrisma == [models |-> << >>, enums |-> << >>]

\* the strictly increasing index sequences of one length
IncSeqs(n, len) == { p \in [1..len -> 1..n] : \A i \in 1..(len - 1) : p[i] < p[i + 1] }

\* no two picked relation fields of an object have the same name
DistinctFieldNames(owner, picks) ==
  \A i, j \in DOMAIN picks :
    i < j => Templates[OptionsOf(owner)[picks[i]].tpl].name # Templates[OptionsOf(owner)[picks[j]].tpl].name

\* the relation field of the option carries a relation name and its type names no object
NamedUntyped(option) == ~Templates[option.tpl].typed /\ Templates[option.tpl].relName # NoName

\* the relation field of the option is a list that has a foreign-key sibling
ListWithKey(option) == Templates[option.tpl].shape = "list" /\ Templates[option.tpl].fk # NoName

\* the relation field of the option has the name the second pass gives the
\* back-relation field of Post.author
NamedAsGenerated(option) == Templates[option.tpl].name = fOstsAuthor

\* no picked relation field of an object has the name of a generated field
NoneNamedAsGenerated(owner, picks) == \A i \in DOMAIN picks : ~NamedAsGenerated(OptionsOf(owner)[picks[i]])

\* no picked relation field of an object is resolved through its relation name
NoneNamedUntyped(owner, picks) == \A i \in DOMAIN picks : ~NamedUntyped(OptionsOf(owner)[picks[i]])

\* no picked relation field of an object is a list with a foreign-key sibling
NoneListWithKey(owner, picks) == \A i \in DOMAIN picks : ~ListWithKey(OptionsOf(owner)[picks[i]])

\* some field of the schema has to be resolved by name: its type names no object
HasUntypedRelation(schema) ==
  \E i \in DOMAIN schema.objects : \E j \in DOMAIN schema.objects[i].fields :
    LET f == schema.objects[i].fields[j]
    IN f.documentation.rel /\ f.type.tag = "ZodUnknown"

\* what the fuzzy index may answer: nothing, or one of the schema's entities
FuseAnswers(schema) ==
  IF HasUntypedRelation(schema)
  THEN { NoName } \cup { schema.objects[i].name : i \in DOMAIN schema.objects }
  ELSE { NoName }

\* zodToPrisma is entered: const matcher = new PureFSTRelationMatcher(allModelNames)
ReverseStart ==
  /\ \E fuseAnswer \in FuseAnswers(zod) :
       matcher = NewMatcher([ i \in DOMAIN zod.objects |-> zod.objects[i].name ], fuseAnswer)
  /\ pc = "start"
  /\ prisma = EmptyPrisma
  /\ modelMap = << >>
  /\ newFieldsByModel = << >>
  /\ errors = << >>
  /\ failure = << >>
  /\ groups = << >>
  /\ config = SyncConfig(FALSE)
  /\ files = << >>
  /\ fsLog = << >>

Init ==
  /\ \E order \in ObjectOrders :
       \E n1 \in 0..MaxRelationFields :
         \E n2 \in 0..(IF Len(order) > 1 THEN MaxRelationFields - n1 ELSE 0) :
           \E p1 \in IncSeqs(Len(OptionsOf(order[1])), n1) :
             \E p2 \in IncSeqs(IF Len(order) > 1 THEN Len(OptionsOf(order[2])) ELSE 0, n2) :
               /\ DistinctFieldNames(order[1], p1) /\ NoneNamedAsGenerated(order[1], p1)
               /\ Len(order) > 1 => (DistinctFieldNames(order[2], p2) /\ NoneNamedAsGenerated(order[2], p2))
               /\ NoneNamedUntyped(order[1], p1) /\ NoneListWithKey(order[1], p1)
               /\ Len(order) > 1 => (NoneNamedUntyped(order[2], p2) /\ NoneListWithKey(order[2], p2))
               /\ zod = [ objects |-> [ i \in DOMAIN order |-> BuildObject(order[i], IF i = 1 THEN p1 ELSE p2) ],
                          enums |-> << >> ]
  /\ ReverseStart

\* matcher.learnGlobalPatterns(zod.objects)
LearnGlobalPatterns ==
  /\ pc = "start"
  /\ matcher' = learnGlobalPatterns(matcher, zod.objects)
  /\ pc' = "learned"
  /\ UNCHANGED << zod, prisma, modelMap, newFieldsByModel, errors, failure, groups, config, files, fsLog >>

\* zod.objects.map(zodObjectToPrismaModel), zod.enums.map(zodEnumToPrismaEnum), new Map(...)
CreateInitialModels ==
  /\ pc = "learned"
  /\ IF ConversionThrows(zod.objects, matcher)
     THEN /\ pc' = "failed"
          /\ UNCHANGED << prisma, modelMap >>
     ELSE /\ prisma' = [ models |-> [ i \in DOMAIN zod.objects |-> zodObjectToPrismaModel(zod.objects[i], matcher) ],
                         enums |-> [ i \in DOMAIN zod.enums |-> zodEnumToPrismaEnum(zod.enums[i]) ] ]
          /\ modelMap' = prisma'.models
          /\ pc' = "created"
  /\ UNCHANGED << zod, matcher, newFieldsByModel, errors, failure, groups, config, files, fsLog >>

\* First pass: enrich forward relations with fields/references when possible
EnrichForwardRelations ==
  /\ pc = "created"
  /\ prisma' = [prisma EXCEPT !.models = FirstPass(prisma.models, modelMap)]
  /\ pc' = "enriched"
  /\ UNCHANGED << zod, matcher, modelMap, newFieldsByModel, errors, failure, groups, config, files, fsLog >>

\* Second pass: add missing back-relations
CollectBackRelations ==
  /\ pc = "enriched"
  /\ newFieldsByModel' = SecondPass(prisma.models, modelMap)
  /\ pc' = "collected"
  /\ UNCHANGED << zod, prisma, matcher, modelMap, errors, failure, groups, config, files, fsLog >>

\* Apply back-relations, and return
ApplyBackRelations ==
  /\ pc = "collected"
  /\ prisma' = [prisma EXCEPT !.models = IF DOMAIN newFieldsByModel # {}
                                         THEN ApplyPass(prisma.models, newFieldsByModel) ELSE @]
  /\ pc' = "done"
  /\ UNCHANGED << zod, matcher, modelMap, newFieldsByModel, errors, failure, groups, config, files, fsLog >>

Next ==
  \/ LearnGlobalPatterns
  \/ CreateInitialModels
  \/ EnrichForwardRelations
  \/ CollectBackRelations
  \/ ApplyBackRelations

Spec == Init /\ [][Next]_vars

(***************************************************************************)
(* Input schemas in which the first object carries a self-relation pair:   *)
(* a parent field and a children field that share one relation name.       *)
(* Beside the pair the schema holds at most MaxExtraFields relation        *)
(* fields, on either object.                                               *)
(***************************************************************************)
\* the most relation fields of one input schema beside the pair
MaxExtraFields == 1

\* the template of an option is one side of the pair
IsPairSide(option, name) == Templates[option.tpl].name = name /\ Templates[option.tpl].relName = nTree

\* the picks of an object hold both sides of the pair
PairPicked(owner, picks) ==
  /\ \E i \in DOMAIN picks : IsPairSide(OptionsOf(owner)[picks[i]], fParent)
  /\ \E i \in DOMAIN picks : IsPairSide(OptionsOf(owner)[picks[i]], fChildren)

InitPair ==
  /\ \E order \in ObjectOrders :
       \E n1 \in 2..(2 + MaxExtraFields) :
         \E n2 \in 0..(IF Len(order) > 1 THEN 2 + MaxExtraFields - n1 ELSE 0) :
           \E p1 \in IncSeqs(Len(OptionsOf(order[1])), n1) :
             \E p2 \in IncSeqs(IF Len(order) > 1 THEN Len(OptionsOf(order[2])) ELSE 0, n2) :
               /\ PairPicked(order[1], p1)
               /\ DistinctFieldNames(order[1], p1) /\ NoneNamedAsGenerated(order[1], p1)
               /\ Len(order) > 1 => (DistinctFieldNames(order[2], p2) /\ NoneNamedAsGenerated(order[2], p2))
               /\ NoneNamedUntyped(order[1], p1) /\ NoneListWithKey(order[1], p1)
               /\ Len(order) > 1 => (NoneNamedUntyped(order[2], p2) /\ NoneListWithKey(order[2], p2))
               /\ zod = [ objects |-> [ i \in DOMAIN order |-> BuildObject(order[i], IF i = 1 THEN p1 ELSE p2) ],
                          enums |-> << >> ]
  /\ ReverseStart

SpecPair == InitPair /\ [][Next]_vars

(***************************************************************************)
(* Input schemas in which some relation field has to be resolved through   *)
(* its relation name: the field carries a relation name and its type names *)
(* no object.                                                              *)
(***************************************************************************)
\* the most relation fields of one such input schema
MaxResolveFields == 2

InitResolve ==
  /\ \E order \in ObjectOrders :
       \E n1 \in 0..MaxResolveFields :
         \E n2 \in 0..(IF Len(order) > 1 THEN MaxResolveFields - n1 ELSE 0) :
           \E p1 \in IncSeqs(Len(OptionsOf(order[1])), n1) :
             \E p2 \in IncSeqs(IF Len(order) > 1 THEN Len(OptionsOf(order[2])) ELSE 0, n2) :
               /\ DistinctFieldNames(order[1], p1) /\ NoneNamedAsGenerated(order[1], p1)
               /\ Len(order) > 1 => (DistinctFieldNames(order[2], p2) /\ NoneNamedAsGenerated(order[2], p2))
               /\ ~NoneNamedUntyped(order[1], p1) \/ (Len(order) > 1 /\ ~NoneNamedUntyped(order[2], p2))
               /\ NoneListWithKey(order[1], p1)
               /\ Len(order) > 1 => NoneListWithKey(order[2], p2)
               /\ zod = [ objects |-> [ i \in DOMAIN order |-> BuildObject(order[i], IF i = 1 THEN p1 ELSE p2) ],
                          enums |-> << >> ]
  /\ ReverseStart

SpecResolve == InitResolve /\ [][Next]_vars

(***************************************************************************)
(* Input schemas in which some list-typed reference field has a            *)
(* foreign-key sibling (posts beside postsId).                             *)
(***************************************************************************)
\* the most relation fields of one such input schema
MaxKeyFields == 2

InitKeys ==
  /\ \E order \in ObjectOrders :
       \E n1 \in 0..MaxKeyFields :
         \E n2 \in 0..(IF Len(order) > 1 THEN MaxKeyFields - n1 ELSE 0) :
           \E p1 \in IncSeqs(Len(OptionsOf(order[1])), n1) :
             \E p2 \in IncSeqs(IF Len(order) > 1 THEN Len(OptionsOf(order[2])) ELSE 0, n2) :
               /\ DistinctFieldNames(order[1], p1) /\ NoneNamedAsGenerated(order[1], p1)
               /\ Len(order) > 1 => (DistinctFieldNames(order[2], p2) /\ NoneNamedAsGenerated(order[2], p2))
               /\ ~NoneListWithKey(order[1], p1) \/ (Len(order) > 1 /\ ~NoneListWithKey(order[2], p2))
               /\ NoneNamedUntyped(order[1], p1)
               /\ Len(order) > 1 => NoneNamedUntyped(order[2], p2)
               /\ zod = [ objects |-> [ i \in DOMAIN order |-> BuildObject(order[i], IF i = 1 THEN p1 ELSE p2) ],
                          enums |-> << >> ]
  /\ ReverseStart

SpecKeys == InitKeys /\ [][Next]_vars

(***************************************************************************)
(* Input schemas with three entities, User, Post and XPost, whose relation *)
(* fields name their target, User.  Post and XPost have the same matcher   *)
(* tokens, and an entity may have a list field of User or Post with the    *)
(* name the second pass gives the back-relation field of Post.author.      *)
(***************************************************************************)
\* the most relation fields of one such input schema
MaxCollideFields == 3

CollideNames == << nUser, nPost, nXPost >>

\* the relation field of the option names User as its target, or has the
\* generated name
TargetsUser(option) ==
  /\ Templates[option.tpl].typed
  /\ ~ListWithKey(option)
  /\ ~Templates[option.tpl].self
  /\ option.target = nUser \/ NamedAsGenerated(option)

\* the picks of an object: distinct field names, each targeting User or generated-named
CollidePicks(owner, picks) ==
  /\ DistinctFieldNames(owner, picks)
  /\ \A i \in DOMAIN picks : TargetsUser(OptionsOf(owner)[picks[i]])

InitCollide ==
  /\ \E n \in [DOMAIN CollideNames -> 0..MaxCollideFields] :
       /\ n[1] + n[2] + n[3] <= MaxCollideFields
       /\ \E p1 \in IncSeqs(Len(OptionsOf(nUser)), n[1]) :
            \E p2 \in IncSeqs(Len(OptionsOf(nPost)), n[2]) :
              \E p3 \in IncSeqs(Len(OptionsOf(nXPost)), n[3]) :
                /\ CollidePicks(nUser, p1)
                /\ CollidePicks(nPost, p2)
                /\ CollidePicks(nXPost, p3)
                /\ zod = [ objects |-> << BuildObject(nUser, p1), BuildObject(nPost, p2), BuildObject(nXPost, p3) >>,
                           enums |-> << >> ]
  /\ ReverseStart

SpecCollide == InitCollide /\ [][Next]_vars

(***************************************************************************)
(* Input schemas whose entities are among User, UserProfile and Post and   *)
(* whose reference fields, at most one an object, are named owner, name no *)
(* object as their type and carry a relation name, first in the annotation *)
(* or after the key lists.                                                 *)
(***************************************************************************)
\* the most reference fields of one such input schema
MaxNamedFields == 1

ExtractEntities == { nUser, nUserProfile, nPost }

\* the object lists: one to three of the entities, in any order
ExtractOrders ==
  UNION { { order \in [1..k -> ExtractEntities] : \A i, j \in 1..k : i # j => order[i] # order[j] } : k \in 1..3 }

ExtractRelationNames == { nUserProfileOwner, nUserProfiles, nUserPosts, nPostOwner, nPostUser }

\* what an object carries beside id: nothing, or owner with a relation name in one of the two forms
NamedOptions ==
  { << >> } \cup { << [relName |-> r, nameForm |-> form] >> : r \in ExtractRelationNames, form \in { "positional", "nameLater" } }

NamedField(option) ==
  ZodField(fOwner, ZLeaf("ZodUnknown"),
           [NoDoc EXCEPT !.rel = TRUE, !.nameForm = option.nameForm, !.name = option.relName])

NamedObject(owner, options) ==
  ZodObjectDef(owner, << IdField >> \o [ i \in DOMAIN options |-> NamedField(options[i]) ])

InitExtract ==
  /\ \E order \in ExtractOrders :
       \E options \in [DOMAIN order -> NamedOptions] :
         /\ Len(Concat(options)) <= MaxNamedFields
         /\ zod = [ objects |-> [ i \in DOMAIN order |-> NamedObject(order[i], options[i]) ], enums |-> << >> ]
  /\ ReverseStart

SpecExtract == InitExtract /\ [][Next]_vars

(***************************************************************************)
(* Input schemas with the one object User that has one scalar field: id,   *)
(* createdAt or title, a string, number or date leaf under at most         *)
(* MaxWrapLayers optional or defaulted layers.                             *)
(***************************************************************************)
\* the most wrapper layers of the field of such an input schema
MaxWrapLayers == 1

\* the value of a literal default
DraftLiteral == [kind |-> "string", text |-> "draft"]

ScalarLeaves ==
  { ZString({}), ZString({ "Cuid" }), ZString({ "Uuid" }), ZNumber({ "Int" }), ZNumber({}), ZLeaf("ZodDate") }

RECURSIVE WrappedUpTo(_)
\* the leaves under at most n layers
WrappedUpTo(n) ==
  IF n = 0 THEN ScalarLeaves
  ELSE WrappedUpTo(n - 1)
       \cup { ZOptional(t) : t \in WrappedUpTo(n - 1) }
       \cup { ZDefault(t, DraftLiteral) : t \in WrappedUpTo(n - 1) }
       \cup { ZDefault(t, Undefined) : t \in WrappedUpTo(n - 1) }

InitField ==
  /\ \E name \in { nId, fCreatedAt, fTitle } :
       \E type \in WrappedUpTo(MaxWrapLayers) :
         zod = [ objects |-> << ZodObjectDef(nUser, << ZodField(name, type, NoDoc) >>) >>, enums |-> << >> ]
  /\ ReverseStart

SpecField == InitField /\ [][Next]_vars

(***************************************************************************)
(* Input schemas of the sync pipeline: relational schemas as parseDMMF     *)
(* builds them.  The first entity (User) takes its fields, with            *)
(* repetition, from a pool; the second entity (Post), when present, is one *)
(* of a few fixed entities.                                                *)
(***************************************************************************)
\* the longest field list of the first entity
MaxPrismaFields == 3

PrismaField(name, type, isList, isOptional, isUnique, attributes) ==
  [ name |-> name, type |-> type,
    modifiers |-> [isList |-> isList, isOptional |-> isOptional, isUnique |-> isUnique],
    attributes |-> attributes, documentation |-> NoDoc ]

AdminLiteral == [tag |-> "Literal", value |-> [kind |-> "string", text |-> "ADMIN"]]

FieldPool ==
  << PrismaField(nId, ScalarType("String"), FALSE, FALSE, FALSE, << Attr("Id"), DefaultAttr([tag |-> "Cuid"]) >>),
     PrismaField(fEmail, ScalarType("String"), FALSE, FALSE, TRUE, << Attr("Unique") >>),
     PrismaField(fTitle, ScalarType("Int"), FALSE, TRUE, FALSE, << >>),
     PrismaField(fRole, EnumType(nRole), FALSE, FALSE, FALSE, << DefaultAttr(AdminLiteral) >>),
     PrismaField(fAuthor, ModelType(nPost), FALSE, TRUE, FALSE,
                 << RelationAttr(Relation(nPostAuthor, << fAuthorId >>, << nId >>)) >>),
     PrismaField(fLegacy, ScalarType("String"), TRUE, FALSE, FALSE, << Attr("Ignore") >>),
     PrismaField(fPosts, ModelType(nPost), TRUE, FALSE, FALSE,
                 << RelationAttr(Relation(nWritten, << >>, << >>)) >>),
     PrismaField(fScore, ScalarType("Float"), FALSE, FALSE, FALSE, << >>),
     PrismaField(fNickname, ScalarType("String"), FALSE, TRUE, FALSE, << DefaultAttr(AdminLiteral) >>) >>

PrismaModel(name, fields, attributes) == [name |-> name, fields |-> fields, attributes |-> attributes]

\* the second entity: absent, plain, without fields, or marked @@ignore
SecondModels ==
  { << >>,
    << PrismaModel(nPost, << FieldPool[1], FieldPool[3] >>, << >>) >>,
    << PrismaModel(nPost, << >>, << >>) >>,
    << PrismaModel(nPost, << FieldPool[1], FieldPool[6] >>, << Attr("Ignore") >>) >> }

PrismaEnums ==
  { << >>,
    << [name |-> nRole, values |-> << nADMIN, nGUEST >>] >>,
    << [name |-> nRole, values |-> << >>] >> }

InitSync ==
  /\ \E len \in 0..MaxPrismaFields :
       \E picks \in [1..len -> DOMAIN FieldPool] :
         \E ignored \in BOOLEAN :
           \E second \in SecondModels :
             \E enums \in PrismaEnums :
               prisma = [ models |-> << PrismaModel(nUser, [ i \in 1..len |-> FieldPool[picks[i]] ],
                                                    IF ignored THEN << Attr("Ignore") >> ELSE << >>) >> \o second,
                          enums |-> enums ]
  /\ pc = "parsed"
  /\ zod = EmptyZod
  /\ matcher = NewMatcher(<< >>, NoName)
  /\ modelMap = << >>
  /\ newFieldsByModel = << >>
  /\ errors = << >>
  /\ failure = << >>
  /\ groups = << >>
  /\ config = SyncConfig(TRUE)
  /\ files = << >>
  /\ fsLog = << FsCall("readFile", PrismaPath) >>

\* yield* parser.validate(prismaSchema)
Validate ==
  /\ pc = "parsed"
  /\ errors' = ValidationErrors(prisma)
  /\ failure' = validate(prisma)
  /\ pc' = IF failure' # << >> THEN "invalid" ELSE "validated"
  /\ UNCHANGED << zod, prisma, matcher, modelMap, newFieldsByModel, groups, config, files, fsLog >>

\* const zodSchema = prismaToZod(prismaSchema)
PrismaToZod ==
  /\ pc = "validated"
  /\ zod' = prismaToZod(prisma)
  /\ pc' = "converted"
  /\ UNCHANGED << prisma, matcher, modelMap, newFieldsByModel, errors, failure, groups, config, files, fsLog >>

\* const groups = groupByDomain(zodSchema)
GroupByDomain ==
  /\ pc = "converted"
  /\ config.modular
  /\ groups' = groupByDomain(zod)
  /\ pc' = "grouped"
  /\ UNCHANGED << zod, prisma, matcher, modelMap, newFieldsByModel, errors, failure, config, files, fsLog >>

NextSync ==
  \/ Validate
  \/ PrismaToZod
  \/ GroupByDomain

SpecSync == InitSync /\ [][NextSync]_vars

(***************************************************************************)
(* The sync service from its start: read, parse, validate, transform,      *)
(* generate, write, in single-file and in modular mode.  The FileSystem    *)
(* adapter, getDMMF and prettier are not part of the sources: a call on    *)
(* them succeeds or fails, and a parse that succeeds returns one of        *)
(* PipelineSchemas.                                                        *)
(***************************************************************************)
\* the most fields of the first entity of a parsed schema
MaxPipelineFields == 1

nEnumsModel == << "E", "n", "u", "m", "s" >>

PipelineSchemas ==
  UNION { { [ models |-> << PrismaModel(name, [ i \in 1..len |-> FieldPool[picks[i]] ], << >>) >> \o second,
              enums |-> enums ] :
              name \in { nUser, nEnumsModel }, picks \in [1..len -> DOMAIN FieldPool],
              second \in SecondModels, enums \in PrismaEnums } :
          len \in 0..MaxPipelineFields }

InitPipeline ==
  /\ pc = "start"
  /\ \E modular \in BOOLEAN : config = SyncConfig(modular)
  /\ zod = EmptyZod
  /\ prisma = EmptyPrisma
  /\ matcher = NewMatcher(<< >>, NoName)
  /\ modelMap = << >>
  /\ newFieldsByModel = << >>
  /\ errors = << >>
  /\ failure = << >>
  /\ groups = << >>
  /\ files = << >>
  /\ fsLog = << >>

FileSystemError(call) == [tag |-> "FileSystemError", operation |-> call.op, path |-> call.path]

\* const schemaContent = yield* fs.readFile(config.prismaPath)
ReadFile ==
  /\ pc = "start"
  /\ fsLog' = Append(fsLog, FsCall("readFile", config.prismaPath))
  /\ \E ok \in BOOLEAN :
       IF ok THEN pc' = "read" /\ failure' = failure
       ELSE pc' = "unread" /\ failure' = << FileSystemError(FsCall("readFile", config.prismaPath)) >>
  /\ UNCHANGED << zod, prisma, matcher, modelMap, newFieldsByModel, errors, groups, config, files >>

\* const prismaSchema = yield* parser.parse(schemaContent)
Parse ==
  /\ pc = "read"
  /\ \/ /\ pc' = "unparsed"
        /\ failure' = << [tag |-> "SyntaxError"] >>
        /\ prisma' = prisma
     \/ /\ pc' = "parsed"
        /\ failure' = failure
        /\ prisma' \in PipelineSchemas
  /\ UNCHANGED << zod, matcher, modelMap, newFieldsByModel, errors, groups, config, files, fsLog >>

\* const files = generateModularFiles(zodSchema, { baseDir: config.zodPath, groups })
GenerateModularFiles ==
  /\ pc = "grouped"
  /\ files' = generateModularFiles(zod, config.zodPath, groups)
  /\ pc' = "generated"
  /\ UNCHANGED << zod, prisma, matcher, modelMap, newFieldsByModel, errors, failure, groups, config, fsLog >>

\* yield* writeModularFiles(files): the calls up to the first that fails
WriteModularFiles ==
  /\ pc = "generated"
  /\ \E done \in 0..Len(WriteCalls(files)) :
       IF done = Len(WriteCalls(files))
       THEN /\ fsLog' = fsLog \o WriteCalls(files)
            /\ pc' = "written"
            /\ failure' = failure
       ELSE /\ fsLog' = fsLog \o SubSeq(WriteCalls(files), 1, done + 1)
            /\ pc' = "failed"
            /\ failure' = << FileSystemError(WriteCalls(files)[done + 1]) >>
  /\ UNCHANGED << zod, prisma, matcher, modelMap, newFieldsByModel, errors, groups, config, files >>

\* const code = yield* generator.generate(zodSchema)
Generate ==
  /\ pc = "converted"
  /\ ~config.modular
  /\ \E ok \in BOOLEAN :
       IF ok THEN pc' = "coded" /\ files' = << [content |-> [by |-> "generateCode", of |-> NoName]] >> /\ failure' = failure
       ELSE pc' = "failed" /\ files' = files /\ failure' = << [tag |-> "ValidationError"] >>
  /\ UNCHANGED << zod, prisma, matcher, modelMap, newFieldsByModel, errors, groups, config, fsLog >>

\* const formattedCode = yield* generator.format(code)
Format ==
  /\ pc = "coded"
  /\ \E ok \in BOOLEAN :
       IF ok THEN pc' = "formatted" /\ files' = << [content |-> [by |-> "format", of |-> NoName]] >> /\ failure' = failure
       ELSE pc' = "failed" /\ files' = files /\ failure' = << [tag |-> "CodeGenerationError"] >>
  /\ UNCHANGED << zod, prisma, matcher, modelMap, newFieldsByModel, errors, groups, config, fsLog >>

\* yield* fs.writeFile(config.zodPath, formattedCode)
WriteFile ==
  /\ pc = "formatted"
  /\ fsLog' = Append(fsLog, FsCall("writeFile", config.zodPath))
  /\ \E ok \in BOOLEAN :
       IF ok THEN pc' = "written" /\ failure' = failure
       ELSE pc' = "failed" /\ failure' = << FileSystemError(FsCall("writeFile", config.zodPath)) >>
  /\ UNCHANGED << zod, prisma, matcher, modelMap, newFieldsByModel, errors, groups, config, files >>

NextPipeline ==
  \/ ReadFile
  \/ Parse
  \/ Validate
  \/ PrismaToZod
  \/ GroupByDomain
  \/ GenerateModularFiles
  \/ WriteModularFiles
  \/ Generate
  \/ Format
  \/ WriteFile

SpecPipeline == InitPipeline /\ [][NextPipeline]_vars

(***************************************************************************)
(* Input schemas of groupByDomain called on its own: the first objects of  *)
(* GroupNames, each an id field followed by the fields of one of           *)
(* ReferenceOptions.                                                       *)
(***************************************************************************)
\* the most objects of one input schema of groupByDomain
MaxGroupObjects == 3

nStatus == << "S", "t", "a", "t", "u", "s" >>

fRef == << "r", "e", "f" >>

fOther == << "o", "t", "h", "e", "r" >>

GroupNames == << nUser, nPost, nUserProfile, nUserAccount >>

ReferenceOptions ==
  << << >>,
     << ZObject(nUser) >>,
     << ZObject(nUserProfile) >>,
     << ZArray(ZObject(nUserAccount)) >>,
     << ZArray(ZObject(nPost)) >>,
     << ZObject(nPost), ZObject(nGhost) >>,
     << ZObject(nGhost) >>,
     << ZObject(nNested) >>,
     << ZOptional(ZObject(nUser)) >>,
     << ZEnum(nRole) >>,
     << ZArray(ZObject(nUser)), ZObject(nUserAccount) >>,
     << ZOptional(ZArray(ZEnum(nStatus))) >> >>

GroupObject(name, types) ==
  ZodObjectDef(name,
               << ZodField(nId, ZString({}), NoDoc) >>
               \o [ i \in DOMAIN types |-> ZodField(IF i = 1 THEN fRef ELSE fOther, types[i], NoDoc) ])

GroupEnums ==
  { << >>,
    << ZodEnumDef(nRole, << nADMIN, nGUEST >>) >>,
    << ZodEnumDef(nStatus, << nADMIN >>), ZodEnumDef(nRole, << nADMIN, nGUEST >>) >> }

InitGroup ==
  /\ \E k \in 1..MaxGroupObjects :
       \E picks \in [1..k -> DOMAIN ReferenceOptions] :
         \E enums \in GroupEnums :
           zod = [ objects |-> [ i \in 1..k |-> GroupObject(GroupNames[i], ReferenceOptions[picks[i]]) ],
                   enums |-> enums ]
  /\ pc = "converted"
  /\ prisma = EmptyPrisma
  /\ matcher = NewMatcher(<< >>, NoName)
  /\ modelMap = << >>
  /\ newFieldsByModel = << >>
  /\ errors = << >>
  /\ failure = << >>
  /\ groups = << >>
  /\ config = SyncConfig(TRUE)
  /\ files = << >>
  /\ fsLog = << >>

NextGroup == GroupByDomain

SpecGroup == InitGroup /\ [][NextGroup]_vars

(***************************************************************************)
(* Properties of the reverse transformer (Spec, SpecPair).                 *)
(*                                                                         *)
(* zodObjectToPrismaModel maps fields one to one, so field j of object i   *)
(* of zod is field j of entity i of modelMap; the first pass keeps the     *)
(* positions, the last pass may drop and append fields.                    *)
(***************************************************************************)
\* field j of entity i carries a named relation to an entity of the schema
NamedRelationAt(i, j) ==
  LET f == prisma.models[i].fields[j]
  IN /\ HasAttr(f, "Relation")
     /\ RelationOf(f).name # NoName
     /\ f.type.tag = "Model"
     /\ ModelMapHas(prisma.models, f.type.name)

\* the fields of the target entity that are inverse to field j of entity i:
\* of the owner's type, carrying the same relation name, and not that field itself
InverseFields(i, j) ==
  LET M == prisma.models[i]
      f == M.fields[j]
      T == ModelMapGet(prisma.models, f.type.name)
  IN { k \in DOMAIN T.fields :
         /\ T.fields[k].type = ModelType(M.name)
         /\ HasAttr(T.fields[k], "Relation")
         /\ RelationOf(T.fields[k]).name = RelationOf(f).name
         /\ ~(T.name = M.name /\ k = j) }

(* C1: when zodToPrisma returns, every named relation on a field of an     *)
(* entity M that targets an entity T of the schema has exactly one inverse *)
(* field on T: a field of type M carrying the same relation name.          *)
C1_ExactlyOneInverse ==
  pc = "done" =>
    \A i \in DOMAIN prisma.models : \A j \in DOMAIN prisma.models[i].fields :
      NamedRelationAt(i, j) => Cardinality(InverseFields(i, j)) = 1

\* the entity names E for which the key name is E followed by "Id"
EntitiesOfKey(key) ==
  { e \in DOMAIN matcher.modelNames : key = matcher.modelNames[e] \o << "I", "d" >> }

\* the field is resolved through the name of its first key: it has an
\* annotation with key lists and no relation name, and its type names no object
ResolvedByKey(f) ==
  /\ f.documentation.rel
  /\ f.documentation.fields # << >>
  /\ ParsedRelationName(f.documentation) = NoName
  /\ Unwrapped(f).type.tag # "ZodObject"

\* the tiers the claim excludes for a key named after an entity
WeakStrategies ==
  { "fstPattern", "fuzzy", "fallback", "idField:fstPattern", "idField:fuzzy" }

(* C3: once the patterns are learned, a key field named <Entity>Id, for an *)
(* entity of the schema, resolves to that entity with confidence at least  *)
(* 0.95 and through none of the structural-scoring, fuzzy and fallback     *)
(* tiers, whatever else the schema declares.                               *)
C3_EntityIdResolves ==
  pc # "start" =>
    \A i \in DOMAIN zod.objects : \A j \in DOMAIN zod.objects[i].fields :
      LET o == zod.objects[i]
          f == o.fields[j]
      IN ResolvedByKey(f) =>
           \A e \in EntitiesOfKey(f.documentation.fields[1]) :
             LET r == FieldTrace(f, o.name, matcher, o.fields)
             IN /\ r.modelName = matcher.modelNames[e]
                /\ RGe(r.confidence, << 95, 100 >>)
                /\ r.strategy \notin WeakStrategies

\* the steps of inferRelationModelType for a field of an object, as TraceOf calls it
FieldSteps(o, f) ==
  LET un == Unwrapped(f)
  IN InferSteps(f.name, o.name, matcher, ParsedRelationName(f.documentation), o.fields,
                RelationFieldsOf(un.attributes \o InferredAttributes(f, un.type)),
                IF un.type.tag = "ZodObject" THEN un.type.name ELSE NoName)

\* no step of the resolution order returns a target for the field
NoStrategySucceeds(o, f) ==
  LET steps == FieldSteps(o, f)
  IN \A k \in DOMAIN steps : ~Decisive(steps[k])

(* C4: the reverse transformation raises no error; when the entities have  *)
(* been converted, every field with a relation annotation has an entity    *)
(* type with a non-empty name, and when no resolution strategy succeeds    *)
(* that name is the field name with its first letter capitalized.          *)
C4_NeverRaises ==
  /\ pc # "failed"
  /\ pc = "created" =>
       \A i \in DOMAIN zod.objects : \A j \in DOMAIN zod.objects[i].fields :
         LET o == zod.objects[i]
             f == o.fields[j]
             out == modelMap[i].fields[j]
         IN f.documentation.rel =>
              /\ out.type.tag = "Model"
              /\ out.type.name # NoName
              /\ NoStrategySucceeds(o, f) => out.type.name = capitalize(f.name)

\* a relation field that no strategy resolves has been converted
C4_Witness ==
  /\ pc = "created"
  /\ \E i \in DOMAIN zod.objects : \E j \in DOMAIN zod.objects[i].fields :
       /\ zod.objects[i].fields[j].documentation.rel
       /\ NoStrategySucceeds(zod.objects[i], zod.objects[i].fields[j])
       /\ modelMap[i].fields[j].type = ModelType(capitalize(zod.objects[i].fields[j].name))

\* Scenario A: field j of object i has explicit key lists and directly
\* references another object of the schema, which has no field of the owner's type
OwningSideAt(i, j) ==
  LET o == zod.objects[i]
      f == o.fields[j]
      t == Unwrapped(f).type
  IN /\ f.documentation.rel
     /\ f.documentation.fields # << >>
     /\ f.documentation.references # << >>
     /\ t.tag = "ZodObject"
     /\ t.name # o.name
     /\ ModelMapHas(modelMap, t.name)
     /\ \A k \in DOMAIN ModelMapGet(modelMap, t.name).fields :
          ModelMapGet(modelMap, t.name).fields[k].type # ModelType(o.name)

\* the generated fields of an entity that have the type of another
GeneratedFields(target, owner) ==
  { k \in DOMAIN ModelMapGet(prisma.models, target).fields :
      /\ ModelMapGet(prisma.models, target).fields[k].documentation = GeneratedDoc
      /\ ModelMapGet(prisma.models, target).fields[k].type = ModelType(owner) }

(* C5: in Scenario A the owning field resolves to the referenced entity T, *)
(* and T receives exactly one generated field, a list of the owning entity *)
(* M, whose name starts with the plural of M's complete name in lower case *)
(* ("posts" for Post).                                                     *)
C5_InverseNamedAfterOwner ==
  pc = "done" =>
    \A i \in DOMAIN zod.objects : \A j \in DOMAIN zod.objects[i].fields :
      OwningSideAt(i, j) =>
        LET o == zod.objects[i]
            target == Unwrapped(o.fields[j]).type.name
            T == ModelMapGet(prisma.models, target)
        IN /\ modelMap[i].fields[j].type = ModelType(target)
           /\ Cardinality(GeneratedFields(target, o.name)) = 1
           /\ \A k \in GeneratedFields(target, o.name) :
                /\ T.fields[k].modifiers.isList
                /\ startsWith(T.fields[k].name, plural(toLowerCase(o.name)))

\* field j of entity i, as first converted, references its own entity and has no relation name
UnnamedSelfAt(i, j) ==
  /\ modelMap[i].fields[j].type = ModelType(modelMap[i].name)
  /\ RelationOf(modelMap[i].fields[j]).name = NoName

\* the fields of entity i that have the name of field j of the entity as first converted
SameNamed(i, j) ==
  { k \in DOMAIN prisma.models[i].fields : prisma.models[i].fields[k].name = modelMap[i].fields[j].name }

SelfPairAt(i, j1, j2) ==
  LET o == zod.objects[i]
  IN /\ j1 # j2
     /\ Unwrapped(o.fields[j1]).type = ZObject(o.name)
     /\ Unwrapped(o.fields[j2]).type = ZObject(o.name)
     /\ ParsedRelationName(o.fields[j1].documentation) # NoName
     /\ ParsedRelationName(o.fields[j1].documentation) = ParsedRelationName(o.fields[j2].documentation)

\* field j of object i is, in the returned schema, a field of the entity's own
\* type that carries the relation name written in the input
KeepsSelfRelation(i, j) ==
  \E k \in DOMAIN prisma.models[i].fields :
    LET g == prisma.models[i].fields[k]
    IN /\ g.name = zod.objects[i].fields[j].name
       /\ g.type = ModelType(zod.objects[i].name)
       /\ HasAttr(g, "Relation")
       /\ RelationOf(g).name = ParsedRelationName(zod.objects[i].fields[j].documentation)

Offenses(schema) ==
  Cardinality({ i \in DOMAIN schema.models : schema.models[i].fields = << >> })
  + Cardinality({ ij \in UNION { { << i, j >> : j \in DOMAIN schema.models[i].fields } : i \in DOMAIN schema.models } :
                    \E k \in 1..(ij[2] - 1) :
                      schema.models[ij[1]].fields[k].name = schema.models[ij[1]].fields[ij[2]].name })
  + Cardinality({ i \in DOMAIN schema.enums : schema.enums[i].values = << >> })

(* C8: when validate fails on a schema with k >= 2 offenses (entities      *)
(* without fields, enums without values, duplicate field names), the       *)
(* failure it returns to the caller holds all k errors.                    *)
C8_AllErrorsReported ==
  (pc = "invalid" /\ Offenses(prisma) >= 2) => Len(failure) = Offenses(prisma)

\* the groups whose models list holds the name
GroupsOf(name) == { g \in DOMAIN groups : SeqContains(groups[g].models, name) }

\* object i has a field whose type, directly or as an array element, names the object
References(i, name) ==
  \E j \in DOMAIN zod.objects[i].fields :
    \/ zod.objects[i].fields[j].type = ZObject(name)
    \/ zod.objects[i].fields[j].type = ZArray(ZObject(name))

(* C9: groupByDomain, called without a domain config, puts every object of *)
(* the schema in the models list of exactly one of the groups it returns,  *)
(* whatever the references between the objects.                            *)
C9_Partition ==
  pc = "grouped" =>
    \A i \in DOMAIN zod.objects : Cardinality(GroupsOf(zod.objects[i].name)) = 1

\* groupByDomain has returned several groups for a schema with a reference
\* cycle, a self-reference and a reference to a name that is no object
C9_Witness ==
  /\ pc = "grouped"
  /\ Len(groups) > 1
  /\ \E i, k \in DOMAIN zod.objects :
       i # k /\ References(i, zod.objects[k].name) /\ References(k, zod.objects[i].name)
  /\ \E i \in DOMAIN zod.objects : References(i, zod.objects[i].name)
  /\ \E i \in DOMAIN zod.objects : References(i, nGhost)

\* the entities that are not marked @@ignore, in order
KeptModels ==
  Filter(prisma.models, [ i \in DOMAIN prisma.models |-> ~HasAttr(prisma.models[i], "Ignore") ])

\* the names of the fields that carry neither a relation nor @ignore, in order
KeptFieldNames(model) ==
  Filter([ j \in DOMAIN model.fields |-> model.fields[j].name ],
         [ j \in DOMAIN model.fields |->
             ~HasAttr(model.fields[j], "Relation") /\ ~HasAttr(model.fields[j], "Ignore") ])

(* C10: prismaToZod drops exactly the relation-carrying fields, the fields *)
(* marked @ignore and the entities marked @@ignore: its objects are the    *)
(* other entities, in order, each with its other fields, in order.         *)
C10_DropsExactly ==
  pc \in { "converted", "grouped" } =>
    /\ Len(zod.objects) = Len(KeptModels)
    /\ \A i \in DOMAIN zod.objects :
         /\ zod.objects[i].name = KeptModels[i].name
         /\ [ j \in DOMAIN zod.objects[i].fields |-> zod.objects[i].fields[j].name ]
              = KeptFieldNames(KeptModels[i])

\* prismaToZod has converted a schema with an entity marked @@ignore and an
\* entity that keeps a field beside a relation field and a field marked @ignore
C10_Witness ==
  /\ pc = "converted"
  /\ \E i \in DOMAIN prisma.models : HasAttr(prisma.models[i], "Ignore")
  /\ \E i \in DOMAIN prisma.models :
       /\ ~HasAttr(prisma.models[i], "Ignore")
       /\ \E j \in DOMAIN prisma.models[i].fields : HasAttr(prisma.models[i].fields[j], "Relation")
       /\ \E j \in DOMAIN prisma.models[i].fields : HasAttr(prisma.models[i].fields[j], "Ignore")
       /\ KeptFieldNames(prisma.models[i]) # << >>

\* the fields of an entity that prismaToZod keeps, in order
KeptFields(model) ==
  Filter(model.fields,
         [ j \in DOMAIN model.fields |->
             ~HasAttr(model.fields[j], "Relation") /\ ~HasAttr(model.fields[j], "Ignore") ])

\* the positions <<i, j>> of the fields of the converted schema
ZodPositions ==
  UNION { { << i, j >> : j \in DOMAIN zod.objects[i].fields } : i \in DOMAIN zod.objects }

(* C11: an Int or Float field that prismaToZod converts becomes a number   *)
(* leaf that carries the integer refinement exactly when the field is Int, *)
(* and zodFieldToPrismaField maps that field back to the scalar it came    *)
(* from: reverse(forward(s)) = s for s in {Int, Float}.                    *)
C11_NumericRoundTrip ==
  pc = "converted" =>
    \A ij \in ZodPositions :
      LET src == KeptFields(KeptModels[ij[1]])[ij[2]]
          obj == zod.objects[ij[1]]
          leaf == Unwrapped(obj.fields[ij[2]]).type
          back == zodFieldToPrismaField(obj.fields[ij[2]], obj.name, matcher, obj.fields)
      IN src.type.tag \in { "Int", "Float" } =>
           /\ leaf.tag = "ZodNumber"
           /\ ("Int" \in leaf.validations) <=> (src.type.tag = "Int")
           /\ back.type = src.type

\* prismaToZod has converted an entity with an Int field and a Float field
C11_Witness ==
  /\ pc = "converted"
  /\ \E ij \in ZodPositions : Unwrapped(zod.objects[ij[1]].fields[ij[2]]).type = ZNumber({ "Int" })
  /\ \E ij \in ZodPositions : Unwrapped(zod.objects[ij[1]].fields[ij[2]]).type = ZNumber({})
  /\ \E i \in DOMAIN prisma.models : \E j \in DOMAIN prisma.models[i].fields :
       prisma.models[i].fields[j].type = ScalarType("Float")

\* the fields of the relational schema whose type names an enum or an entity
\* that the schema does not declare
UnknownReferences(schema) ==
  { ij \in UNION { { << i, j >> : j \in DOMAIN schema.models[i].fields } : i \in DOMAIN schema.models } :
      LET type == schema.models[ij[1]].fields[ij[2]].type
      IN \/ type.tag = "Enum" /\ \A e \in DOMAIN schema.enums : schema.enums[e].name # type.name
         \/ type.tag = "Model" /\ \A m \in DOMAIN schema.models : schema.models[m].name # type.name }

(* C12: when a field of the relational schema names an enum or an entity   *)
(* that the schema does not declare, the forward transformation fails: the *)
(* pipeline does not get past prismaToZod with a converted schema.         *)
C12_UnknownNameFails ==
  UnknownReferences(prisma) # {} => pc \notin { "converted", "grouped" }

(***************************************************************************)
(* Properties of target resolution (SpecResolve).                          *)
(***************************************************************************)
\* the learned field pattern of a field name, as a step of its own
LearnedStep(f) ==
  IF f.name \in DOMAIN matcher.fieldToModel
  THEN MatchResult(matcher.fieldToModel[f.name], << 95, 100 >>, "learnedPattern")
  ELSE NoMatch

\* the steps of FieldSteps in the order direct reference, learned field
\* pattern, participant graph, prefix extraction, key suffix, scoring, fuzzy
StatedOrder(o, f) ==
  LET steps == FieldSteps(o, f)
  IN << steps[1], LearnedStep(f) >> \o Tail(steps)

(* C13: the target of every field with a relation annotation is the one    *)
(* produced by the first strategy that succeeds in the order direct        *)
(* reference, learned field pattern, participant graph, prefix extraction, *)
(* key suffix stripping, structural scoring, fuzzy search, fallback.       *)
C13_StatedOrder ==
  pc = "created" =>
    \A i \in DOMAIN zod.objects : \A j \in DOMAIN zod.objects[i].fields :
      LET o == zod.objects[i]
          f == o.fields[j]
      IN f.documentation.rel =>
           modelMap[i].fields[j].type.name
             = FirstDecisive(StatedOrder(o, f), MatchResult(capitalize(f.name), << 0, 1 >>, "fallback")).modelName

(***************************************************************************)
(* Properties of the passes of zodToPrisma (Spec).                         *)
(***************************************************************************)
\* entity M has an owning-side field that targets T: a to-one field whose
\* relation has local and referenced key lists when the first pass is over
HasOwningField(M, T) ==
  \E j \in DOMAIN M.fields :
    /\ M.fields[j].type = ModelType(T)
    /\ ~M.fields[j].modifiers.isList
    /\ HasAttr(M.fields[j], "Relation")
    /\ RelationOf(M.fields[j]).fields # << >>
    /\ RelationOf(M.fields[j]).references # << >>

(* C14: every back-relation field the second pass collects for an entity T *)
(* has the type of an entity M that has an owning-side field targeting T;  *)
(* list fields, inverse-side fields and reference fields without a         *)
(* relation annotation cause no field to be synthesized.                   *)
C14_OnlyOwningSide ==
  pc = "collected" =>
    \A T \in DOMAIN newFieldsByModel : \A g \in DOMAIN newFieldsByModel[T] :
      \E m \in DOMAIN prisma.models :
        /\ prisma.models[m].name = newFieldsByModel[T][g].type.name
        /\ HasOwningField(prisma.models[m], T)

\* the inverse names the claim gives the self-relation roles
RoleInverses ==
  << [role |-> << "p", "a", "r", "e", "n", "t" >>, inverse |-> << "c", "h", "i", "l", "d", "r", "e", "n" >>],
     [role |-> << "m", "a", "n", "a", "g", "e", "r" >>, inverse |-> << "e", "m", "p", "l", "o", "y", "e", "e", "s" >>],
     [role |-> << "s", "u", "p", "e", "r", "v", "i", "s", "o", "r" >>,
      inverse |-> << "s", "u", "b", "o", "r", "d", "i", "n", "a", "t", "e", "s" >>] >>

\* field j of entity i, as first converted, is an owning self-relation field
\* with the role name, and the entity has no other field of its own type
OwningRoleAt(i, j, role) ==
  LET M == modelMap[i]
  IN /\ M.fields[j].name = role
     /\ M.fields[j].type = ModelType(M.name)
     /\ HasAttr(M.fields[j], "Relation")
     /\ RelationOf(M.fields[j]).fields # << >>
     /\ RelationOf(M.fields[j]).references # << >>
     /\ \A k \in DOMAIN M.fields : k # j => M.fields[k].type # ModelType(M.name)

(* C15: when zodToPrisma returns, an entity with an owning self-relation   *)
(* field named parent (manager, supervisor) and no inverse field for it    *)
(* has a field named children (employees, subordinates) of its own type.   *)
C15_RoleInverseAdded ==
  pc = "done" =>
    \A i \in DOMAIN modelMap : \A j \in DOMAIN modelMap[i].fields : \A r \in DOMAIN RoleInverses :
      OwningRoleAt(i, j, RoleInverses[r].role) =>
        \E k \in DOMAIN prisma.models[i].fields :
          /\ prisma.models[i].fields[k].name = RoleInverses[r].inverse
          /\ prisma.models[i].fields[k].type = ModelType(modelMap[i].name)

\* the first pass has discovered the local key of field j of entity i: the
\* field had no key lists and now has its foreign-key sibling as sole local key
KeyInferredAt(i, j) ==
  LET f == modelMap[i].fields[j]
      fk == findFkFieldForRelation(f.name, modelMap[i])
      out == prisma.models[i].fields[j]
  IN /\ IsModelType(f.type)
     /\ RelationOf(f).fields = << >>
     /\ RelationOf(f).references = << >>
     /\ fk # NoPrismaField
     /\ HasAttr(out, "Relation")
     /\ RelationOf(out).fields = << fk.name >>

\* the fields of the target entity that are inverse to field j of entity i:
\* of the owner's type, and not that field itself
InversesOf(i, j) ==
  LET M == modelMap[i]
      name == M.fields[j].type.name
  IN IF ~ModelMapHas(modelMap, name) THEN { }
     ELSE { k \in DOMAIN ModelMapGet(modelMap, name).fields :
              /\ ModelMapGet(modelMap, name).fields[k].type = ModelType(M.name)
              /\ ~(name = M.name /\ k = j) }

\* neither field j of entity i nor its inverse field is list-typed
ToOneOnBothSides(i, j) ==
  /\ ~modelMap[i].fields[j].modifiers.isList
  /\ InversesOf(i, j) # { }
  /\ \A k \in InversesOf(i, j) :
       ~ModelMapGet(modelMap, modelMap[i].fields[j].type.name).fields[k].modifiers.isList

\* the foreign-key sibling of field j of entity i is marked unique in the output
KeyMarkedUnique(i, j) ==
  \E k \in DOMAIN prisma.models[i].fields :
    /\ prisma.models[i].fields[k].name = findFkFieldForRelation(modelMap[i].fields[j].name, modelMap[i]).name
    /\ HasAttr(prisma.models[i].fields[k], "Unique")

(* C16: after the first pass, a local key discovered by key inference is   *)
(* marked unique when, and only when, neither the relation field nor its   *)
(* inverse field on the target entity is list-typed (stated for the fields *)
(* that have at most one inverse field).                                   *)
C16_UniqueIffOneToOne ==
  pc = "enriched" =>
    \A i \in DOMAIN modelMap : \A j \in DOMAIN modelMap[i].fields :
      (KeyInferredAt(i, j) /\ Cardinality(InversesOf(i, j)) <= 1) =>
        (KeyMarkedUnique(i, j) <=> ToOneOnBothSides(i, j))

\* field j of entity i, as first converted, is a reference field without
\* key lists whose entity has a foreign-key sibling for it
HasKeySiblingAt(i, j) ==
  LET f == modelMap[i].fields[j]
  IN /\ IsModelType(f.type)
     /\ RelationOf(f).fields = << >>
     /\ RelationOf(f).references = << >>
     /\ findFkFieldForRelation(f.name, modelMap[i]) # NoPrismaField

(* C17: after the first pass, every reference field without explicit key   *)
(* lists whose entity has a field named after it with the suffix Id, ID,   *)
(* _id or _ID has that sibling as its sole local key and "id" as its sole  *)
(* referenced key, whether the reference field is to-one or list-typed.    *)
C17_KeysInferred ==
  pc = "enriched" =>
    \A i \in DOMAIN modelMap : \A j \in DOMAIN modelMap[i].fields :
      HasKeySiblingAt(i, j) =>
        /\ HasAttr(prisma.models[i].fields[j], "Relation")
        /\ RelationOf(prisma.models[i].fields[j]).fields
             = << findFkFieldForRelation(modelMap[i].fields[j].name, modelMap[i]).name >>
        /\ RelationOf(prisma.models[i].fields[j]).references = << nId >>

(***************************************************************************)
(* Properties of the applied back-relations (SpecCollide).                 *)
(***************************************************************************)
(* C18: when zodToPrisma returns, no entity has two fields of the same     *)
(* name (the objects of the input have none).                              *)
C18_FieldNamesUnique ==
  pc = "done" =>
    \A i \in DOMAIN prisma.models : \A j, k \in DOMAIN prisma.models[i].fields :
      j # k => prisma.models[i].fields[j].name # prisma.models[i].fields[k].name

(* C19: every field an entity has after the per-field conversion is still  *)
(* a field of the entity, with its name and its type, when zodToPrisma     *)
(* returns.                                                                *)
C19_FieldsKept ==
  pc = "done" =>
    \A i \in DOMAIN modelMap : \A j \in DOMAIN modelMap[i].fields :
      \E k \in DOMAIN prisma.models[i].fields :
        /\ prisma.models[i].fields[k].name = modelMap[i].fields[j].name
        /\ prisma.models[i].fields[k].type = modelMap[i].fields[j].type

(***************************************************************************)
(* Properties of the prefix extraction (SpecExtract).                      *)
(***************************************************************************)
\* the longest entity name the string starts with, NoName when there is none
LongestKnownPrefix(modelNames, str) ==
  IF \E i \in DOMAIN modelNames : startsWith(str, modelNames[i])
  THEN modelNames[CHOOSE i \in DOMAIN modelNames :
         /\ startsWith(str, modelNames[i])
         /\ \A k \in DOMAIN modelNames : startsWith(str, modelNames[k]) => Len(modelNames[k]) <= Len(modelNames[i])]
  ELSE NoName

\* the longest known prefix of the relation name, or that of the remainder
\* when the prefix is the current entity and text remains
StatedExtraction(modelNames, relationName, currentModelName) ==
  IF LongestKnownPrefix(modelNames, relationName) = currentModelName
     /\ Len(relationName) > Len(currentModelName)
  THEN LongestKnownPrefix(modelNames, sliceFrom(relationName, Len(currentModelName)))
  ELSE LongestKnownPrefix(modelNames, relationName)

\* the field of the object is resolved by the prefix extraction: it has a
\* relation name, and neither its type, nor a learned pattern, nor the
\* participant graph gives a target
ResolvedByExtraction(o, f) ==
  /\ f.documentation.rel
  /\ ParsedRelationName(f.documentation) # NoName
  /\ ~Decisive(FieldSteps(o, f)[1])
  /\ ~Decisive(LearnedStep(f))
  /\ ~Decisive(FieldSteps(o, f)[2])

(* C20: a field resolved by the prefix extraction gets the longest entity  *)
(* name that is a prefix of its relation name, or, when that prefix is the *)
(* current entity and text remains, the longest entity name that is a      *)
(* prefix of the remainder.                                                *)
C20_LongestPrefix ==
  pc = "created" =>
    \A i \in DOMAIN zod.objects : \A j \in DOMAIN zod.objects[i].fields :
      LET o == zod.objects[i]
          f == o.fields[j]
          stated == StatedExtraction(matcher.modelNames, ParsedRelationName(f.documentation), o.name)
      IN (ResolvedByExtraction(o, f) /\ stated # NoName) => modelMap[i].fields[j].type.name = stated

(***************************************************************************)
(* Properties of the participant graph (SpecResolve).                      *)
(***************************************************************************)
\* the relation names the annotations of the schema carry
AnnotatedRelationNames ==
  UNION { { ParsedRelationName(zod.objects[i].fields[j].documentation) : j \in DOMAIN zod.objects[i].fields } :
            i \in DOMAIN zod.objects } \ { NoName }

\* the positions, in the object list, of the entities that have a field
\* annotated with the relation name
ParticipantsOf(relationName) ==
  { i \in DOMAIN zod.objects :
      \E j \in DOMAIN zod.objects[i].fields :
        ParsedRelationName(zod.objects[i].fields[j].documentation) = relationName }

\* the first participant, in the order of the object list, that is not the current entity
FirstOtherParticipant(relationName, c) ==
  zod.objects[CHOOSE i \in ParticipantsOf(relationName) :
                /\ i # c
                /\ \A k \in ParticipantsOf(relationName) : k # c => i <= k].name

(* C21: once the patterns are learned, the graph lookup of a relation name  *)
(* for a participating current entity returns the other participant when   *)
(* the name has two participants, the first participant that is not the    *)
(* current entity when it has more, and the current entity only when that   *)
(* entity is the sole participant.                                          *)
C21_GraphLookup ==
  pc = "learned" =>
    \A relationName \in AnnotatedRelationNames : \A c \in ParticipantsOf(relationName) :
      LET result == getTargetModelFromGraph(matcher, relationName, zod.objects[c].name)
      IN /\ Cardinality(ParticipantsOf(relationName)) >= 2 => result = FirstOtherParticipant(relationName, c)
         /\ result = zod.objects[c].name => ParticipantsOf(relationName) = { c }

(***************************************************************************)
(* Properties of the clustering (SpecGroup).                               *)
(***************************************************************************)
RECURSIVE NamesObject(_, _)
\* the type names the object, directly or through optional, nullable,
\* defaulted or array layers
NamesObject(type, name) ==
  IF type.tag = "ZodObject" THEN type.name = name
  ELSE IF type.tag \in { "ZodOptional", "ZodNullable", "ZodDefault" } THEN NamesObject(type.inner, name)
  ELSE IF type.tag = "ZodArray" THEN NamesObject(type.element, name)
  ELSE FALSE

\* an edge of the undirected reference graph: a field of one object names the other
ReferenceEdge(i, k) ==
  \/ \E j \in DOMAIN zod.objects[i].fields : NamesObject(zod.objects[i].fields[j].type, zod.objects[k].name)
  \/ \E j \in DOMAIN zod.objects[k].fields : NamesObject(zod.objects[k].fields[j].type, zod.objects[i].name)

RECURSIVE ReachableFrom(_, _)
\* the objects connected to those of the set, after at most n more edges
ReachableFrom(set, n) ==
  IF n = 0 THEN set
  ELSE ReachableFrom(set \cup { k \in DOMAIN zod.objects : \E i \in set : ReferenceEdge(i, k) }, n - 1)

ConnectedObjects(i, k) == k \in ReachableFrom({ i }, Len(zod.objects))

(* C22: when groupByDomain has returned, two objects are in the same group  *)
(* exactly when they are connected in the undirected reference graph,      *)
(* whose edges are the references through any wrapper.                     *)
C22_ClustersAreComponents ==
  pc = "grouped" =>
    \A i, k \in DOMAIN zod.objects :
      (GroupsOf(zod.objects[i].name) \cap GroupsOf(zod.objects[k].name) # {}) <=> ConnectedObjects(i, k)

(***************************************************************************)
(* Properties of a second synthesis pass (SpecCollide).                    *)
(***************************************************************************)
\* what the synthesis pass collects when it runs on the schema zodToPrisma returned
SecondRun == SecondPass(prisma.models, prisma.models)

(* C23: the synthesis pass collects at most one field for a target entity  *)
(* and a source entity, and when it runs again on the schema zodToPrisma   *)
(* returned it collects no field.                                          *)
C23_Idempotent ==
  pc = "done" =>
    /\ \A t \in DOMAIN newFieldsByModel : \A j, k \in DOMAIN newFieldsByModel[t] :
         j # k => newFieldsByModel[t][j].type # newFieldsByModel[t][k].type
    /\ DOMAIN SecondRun = {}

(***************************************************************************)
(* Properties of the synthesized fields (SpecKeys).                        *)
(***************************************************************************)
\* field j of entity i can cause a field to be synthesized for the entity named t
MayCause(i, j, t) ==
  /\ HasAttr(prisma.models[i].fields[j], "Relation")
  /\ prisma.models[i].fields[j].type.tag \in { "Model", "Enum" }
  /\ prisma.models[i].fields[j].type.name = t

\* the field of entity i that caused the field synthesized for t: the first that can
CauseOf(i, t) ==
  prisma.models[i].fields[CHOOSE j \in DOMAIN prisma.models[i].fields :
                            /\ MayCause(i, j, t)
                            /\ \A k \in DOMAIN prisma.models[i].fields : MayCause(i, k, t) => j <= k]

\* the synthesized field has the shape of a back-relation of the field that caused it
BackRelationShape(new, cause) ==
  /\ new.modifiers = [isList |-> TRUE, isOptional |-> FALSE, isUnique |-> FALSE]
  /\ new.documentation = GeneratedDoc
  /\ \A a \in DOMAIN new.attributes :
       new.attributes[a].tag = "Relation" =>
         new.attributes[a].relation.fields = << >> /\ new.attributes[a].relation.references = << >>
  /\ RelationOf(cause).name # NoName =>
       HasAttr(new, "Relation") /\ RelationOf(new).name = RelationOf(cause).name

(* C24: every field the second pass collects is a list, not optional, not  *)
(* unique, has empty local and referenced key lists, has the relation name *)
(* of the field that caused it when that name is not empty, and has the    *)
(* generated-content marker as its documentation.                          *)
C24_SynthesizedShape ==
  pc = "collected" =>
    \A t \in DOMAIN newFieldsByModel : \A n \in DOMAIN newFieldsByModel[t] :
      \E i \in DOMAIN prisma.models :
        /\ prisma.models[i].name = newFieldsByModel[t][n].type.name
        /\ \E j \in DOMAIN prisma.models[i].fields : MayCause(i, j, t)
        /\ BackRelationShape(newFieldsByModel[t][n], CauseOf(i, t))

\* the second pass has collected a field whose cause has a relation name and
\* key lists
C24_Witness ==
  /\ pc = "collected"
  /\ \E t \in DOMAIN newFieldsByModel : \E n \in DOMAIN newFieldsByModel[t] :
       \E i \in DOMAIN prisma.models :
         /\ prisma.models[i].name = newFieldsByModel[t][n].type.name
         /\ \E j \in DOMAIN prisma.models[i].fields : MayCause(i, j, t)
         /\ RelationOf(CauseOf(i, t)).name # NoName
         /\ RelationOf(CauseOf(i, t)).fields # << >>

(***************************************************************************)
(* Properties of the forward per-field conversion (SpecSync).              *)
(***************************************************************************)
RECURSIVE LayersOf(_)
\* the wrapper layers of a type, outermost first
LayersOf(type) ==
  IF type.tag \in { "ZodOptional", "ZodNullable", "ZodDefault" } THEN << type >> \o LayersOf(type.inner)
  ELSE IF type.tag = "ZodArray" THEN << type >> \o LayersOf(type.element)
  ELSE << >>

HasLayer(type, tag) == \E k \in DOMAIN LayersOf(type) : LayersOf(type)[k].tag = tag

\* the literal defaults of a field
LiteralDefaults(field) ==
  { field.attributes[a].value.value :
      a \in { b \in DOMAIN field.attributes :
                field.attributes[b].tag = "Default" /\ field.attributes[b].value.tag = "Literal" } }

(* C25: the type of a field prismaToZod converts has an array layer        *)
(* exactly when the field is a list, an optional layer exactly when the    *)
(* field is optional, and a defaulted layer exactly when the field has a   *)
(* literal default, and that layer holds the literal.                      *)
C25_ModifiersReproduced ==
  pc = "converted" =>
    \A ij \in ZodPositions :
      LET src == KeptFields(KeptModels[ij[1]])[ij[2]]
          type == zod.objects[ij[1]].fields[ij[2]].type
      IN /\ HasLayer(type, "ZodArray") <=> src.modifiers.isList
         /\ HasLayer(type, "ZodOptional") <=> src.modifiers.isOptional
         /\ HasLayer(type, "ZodDefault") <=> LiteralDefaults(src) # {}
         /\ \A k \in DOMAIN LayersOf(type) :
              LayersOf(type)[k].tag = "ZodDefault" => LayersOf(type)[k].defaultValue \in LiteralDefaults(src)

(***************************************************************************)
(* Properties of the cluster names (SpecGroup).                            *)
(***************************************************************************)
\* the clusters groupByDomain names, each a list of object names
ModelClusters ==
  clusterByRelationships([ i \in DOMAIN zod.objects |-> zod.objects[i].name ], buildRelationshipGraph(zod))

\* the members of the cluster whose name has the token
MembersWith(cluster, token) ==
  { i \in DOMAIN cluster : \E w \in DOMAIN SplitWords(cluster[i]) : SplitWords(cluster[i])[w] = token }

\* the name tokens that at least two members of the cluster share
SharedTokens(cluster) ==
  { token \in UNION { ToSet(SplitWords(cluster[i])) : i \in DOMAIN cluster } :
      token # << >> /\ Cardinality(MembersWith(cluster, token)) >= 2 }

\* the names the cluster may have: a most frequent shared token, or else the
\* pluralized lowercase name of its first member
StatedNames(cluster) ==
  IF SharedTokens(cluster) # {}
  THEN { toLowerCase(token) :
           token \in { t \in SharedTokens(cluster) :
                         \A u \in SharedTokens(cluster) :
                           Cardinality(MembersWith(cluster, u)) <= Cardinality(MembersWith(cluster, t)) } }
  ELSE { pluralize(toLowerCase(cluster[1])) }

(* C26: when groupByDomain has returned, the members of every cluster are  *)
(* in a group named after a most frequent name token that two or more of   *)
(* the members share, or, when they share none, in a group with the        *)
(* pluralized lowercase name of the first member; so is a single member.   *)
C26_ClusterNames ==
  pc = "grouped" =>
    \A c \in DOMAIN ModelClusters :
      \E g \in DOMAIN groups :
        /\ groups[g].name \in StatedNames(ModelClusters[c])
        /\ \A i \in DOMAIN ModelClusters[c] : SeqContains(groups[g].models, ModelClusters[c][i])

(***************************************************************************)
(* Properties of the sync service (SpecPipeline).                          *)
(***************************************************************************)
\* the steps in the stated order, each with the place it fails to
StatedSteps ==
  { << "start", "read" >>, << "start", "unread" >>,
    << "read", "parsed" >>, << "read", "unparsed" >>,
    << "parsed", "validated" >>, << "parsed", "invalid" >>,
    << "validated", "converted" >>,
    << "converted", "grouped" >>, << "grouped", "generated" >>,
    << "generated", "written" >>, << "generated", "failed" >>,
    << "converted", "coded" >>, << "converted", "failed" >>,
    << "coded", "formatted" >>, << "coded", "failed" >>,
    << "formatted", "written" >>, << "formatted", "failed" >> }

\* the calls of the log that write a file or create a directory
WritingCalls == { i \in DOMAIN fsLog : fsLog[i].op \in { "writeFile", "makeDirectory" } }

\* nothing after validation has happened
NothingTransformed == zod = EmptyZod /\ groups = << >> /\ files = << >> /\ WritingCalls = {}

\* what has happened came in the stated order, behind a validation that passed
Gated ==
  /\ pc \in { "start", "read", "unread", "unparsed", "parsed", "invalid" } => NothingTransformed
  /\ ~NothingTransformed => (fsLog[1].op = "readFile" /\ prisma \in PipelineSchemas /\ Offenses(prisma) = 0)
  /\ files # << >> => zod = prismaToZod(prisma)
  /\ WritingCalls # {} => files # << >> /\ pc \in { "written", "failed" }

\* a step of sync is one of the stated steps
StepInOrder == (pc' # pc) => (<< pc, pc' >> \in StatedSteps)

(* C27: sync takes its steps in the order read, parse, validate,           *)
(* transform, generate, write and stops at the first that fails; when the  *)
(* read, the parse or the validation has failed there is no transformed    *)
(* schema, no generated file and no call that writes a file or creates a   *)
(* directory, in either mode.                                              *)
C27_ValidationGates == [](Gated) /\ [][StepInOrder]_vars

\* validation has failed in modular mode, after the read and the parse
C27_Witness ==
  /\ pc = "invalid"
  /\ config.modular
  /\ failure # << >>
  /\ prisma \in PipelineSchemas
  /\ fsLog = << FsCall("readFile", PrismaPath) >>

(* C30: generateModularFiles returns exactly one schema file for every     *)
(* object of the schema, whatever the name of the object's group.          *)
C30_EveryObjectHasFile ==
  pc = "generated" =>
    \A i \in DOMAIN zod.objects :
      Cardinality({ k \in DOMAIN files :
                      files[k].content = [by |-> "generateSchemaFile", of |-> zod.objects[i].name] }) = 1

(***************************************************************************)
(* Properties of the enum assignment (SpecGroup).                          *)
(***************************************************************************)
RECURSIVE NamesEnum(_, _)
\* the type names the enum, directly or through optional, nullable,
\* defaulted or array layers
NamesEnum(type, name) ==
  IF type.tag = "ZodEnum" THEN type.name = name
  ELSE IF type.tag \in { "ZodOptional", "ZodNullable", "ZodDefault" } THEN NamesEnum(type.inner, name)
  ELSE IF type.tag = "ZodArray" THEN NamesEnum(type.element, name)
  ELSE FALSE

\* the objects, by position, that have a field naming the enum
ObjectsUsing(name) ==
  { i \in DOMAIN zod.objects :
      \E j \in DOMAIN zod.objects[i].fields : NamesEnum(zod.objects[i].fields[j].type, name) }

\* the groups whose enums list holds the name
EnumGroupsOf(name) == { g \in DOMAIN groups : SeqContains(groups[g].enums, name) }

\* the group an enum belongs in: that of the first object using it, or common
HomeOf(g, name) ==
  IF ObjectsUsing(name) = {} THEN groups[g].name = nCommon
  ELSE SeqContains(groups[g].models,
                   zod.objects[CHOOSE i \in ObjectsUsing(name) : \A k \in ObjectsUsing(name) : i <= k].name)

(* C28: when groupByDomain has returned, every enum of the schema is in    *)
(* the enums list of exactly one group: the group of the first object, in  *)
(* schema order, that has a field naming the enum directly or through      *)
(* wrappers, or the group common when no object names it.                  *)
C28_EnumsAssigned ==
  pc = "grouped" =>
    \A e \in DOMAIN zod.enums :
      /\ Cardinality(EnumGroupsOf(zod.enums[e].name)) = 1
      /\ \A g \in EnumGroupsOf(zod.enums[e].name) : HomeOf(g, zod.enums[e].name)

\* groupByDomain has returned several groups; one enum is named by two
\* objects of different groups, by the first of them only through
\* wrappers, and another enum is named by no object
C28_Witness ==
  /\ pc = "grouped"
  /\ Len(groups) > 2
  /\ \E e \in DOMAIN zod.enums :
       /\ Cardinality(ObjectsUsing(zod.enums[e].name)) >= 2
       /\ \E i, k \in ObjectsUsing(zod.enums[e].name) :
            GroupsOf(zod.objects[i].name) # GroupsOf(zod.objects[k].name)
       /\ \E i \in ObjectsUsing(zod.enums[e].name) :
            /\ \A k \in ObjectsUsing(zod.enums[e].name) : i <= k
            /\ \A j \in DOMAIN zod.objects[i].fields : zod.objects[i].fields[j].type.tag # "ZodEnum"
  /\ \E e \in DOMAIN zod.enums : ObjectsUsing(zod.enums[e].name) = {}

(***************************************************************************)
(* Properties of the reverse per-field conversion (SpecField).             *)
(***************************************************************************)
\* the Default attributes of a field, by position
DefaultsOf(field) == { a \in DOMAIN field.attributes : field.attributes[a].tag = "Default" }

(* C29: every field of an entity the reverse conversion has created has at *)
(* most one Default attribute.                                             *)
C29_OneDefault ==
  pc = "created" =>
    \A i \in DOMAIN modelMap : \A j \in DOMAIN modelMap[i].fields :
      Cardinality(DefaultsOf(modelMap[i].fields[j])) <= 1

====
